---- MODULE Spec2Model ----
(***************************************************************************)
(* Model of logfire's LLM-provider interception core                       *)
(* (src/logfire/_internal/integrations/llm_providers/llm_provider.py).     *)
(*                                                                         *)
(* Part 1: the interception manager (instrument_llm_provider and the       *)
(* revert handles it returns), working on targets whose attributes         *)
(* `_request`, `_original_request_method` and `_is_instrumented_by_logfire`*)
(* follow Python's attribute lookup (instance first, then class).          *)
(* Part 2: one intercepted call per task, stepping through                 *)
(* _instrumentation_setup, the sync/async request wrapper, and the         *)
(* instrumented stream class with record_streaming.                        *)
(* Part 3: the same code under failing collaborators (SpecFault), external *)
(* mutation of a target (SpecRevert), two concurrent installs taken one    *)
(* statement at a time (SpecRace), cancelled and abandoned streams         *)
(* (SpecStream), and nested suppression scopes (SpecSuppress).             *)
(***************************************************************************)
EXTENDS Integers, Sequences, FiniteSets, TLC

\* ------------------------------------------------------------- bounds
\* Number of top-level instrument_llm_provider calls in one behaviour.
MaxInstall == 3
\* Number of chunks one stream source may produce.
MaxChunks == 3

\* ------------------------------------------------------------ targets
\* "cls" is a client class, "inst" an instance of it: an attribute read on
\* "inst" that the instance does not own falls back to the class.
Targets == {"cls", "inst"}

ClassOf(t) == IF t = "inst" THEN "cls" ELSE "none"

\* Callables are identified by what they dispatch to: the library's own
\* request function, or the k-th wrapper closure this module created.
Absent == [kind |-> "absent", id |-> 0]

OriginalRequest == [kind |-> "original", id |-> 0]

Wrapper(k) == [kind |-> "wrapper", id |-> k]

VARIABLES
    request,        \* own `_request` attribute of each target (Absent: not owned)
    original_request_method, \* own `_original_request_method` attribute
    is_instrumented_by_logfire, \* own `_is_instrumented_by_logfire`: "absent", "True", "False"
    closures,       \* closure cells of each installed wrapper, by wrapper id
    handles,        \* the context managers instrument_llm_provider returned
    is_async,       \* is_async_client_fn(type(client)) for the client class
    suppress_otel,  \* the suppress_otel argument the integration passes
    task,           \* per task: the intercepted call (and its stream) in progress
    suppressed,     \* per task: is_instrumentation_suppressed() in its context
    tokens,         \* per task: the prior values saved by the open suppression scopes
    objects,        \* own attributes of the classes and providers the tool modules patch
    logged          \* what the tool modules wrote to their logger or raised, in order

mgrvars == <<request, original_request_method, is_instrumented_by_logfire, closures, handles>>

toolvars == <<objects, logged>>

vars == <<request, original_request_method, is_instrumented_by_logfire, closures, handles,
          is_async, suppress_otel, task, suppressed, tokens, objects, logged>>

\* getattr(t, name, Absent): the instance's own attribute, else the class's.
Getattr(attr, t, absent) ==
    IF attr[t] # absent THEN attr[t]
    ELSE IF ClassOf(t) \in Targets THEN attr[ClassOf(t)]
    ELSE absent

\* The manager's state as one value, so that a handler made of several
\* calls (a collection of clients, an ExitStack) is one sequential fold.
Mgr == [req |-> request, orig |-> original_request_method,
        flag |-> is_instrumented_by_logfire, closures |-> closures,
        made |-> <<>>, err |-> FALSE, log |-> <<>>]

\* ------------------------------------------------ instrument (single)
\* Lines 65-207 for one client that is not an Iterable. `made` collects the
\* context manager the call returns.
InstrumentIgnoringFlag(m, client, suppress, async) ==
    LET k == Len(m.closures) + 1
        pre == Getattr(m.req, client, Absent)
    IN [m EXCEPT
          !.flag[client] = "True",
          !.orig[client] = pre,
          !.closures = Append(@, [client |-> client, original_request_method |-> pre,
                                  suppress_otel |-> suppress, is_async |-> async]),
          !.req[client] = Wrapper(k),
          !.made = Append(@, [kind |-> "uninstrument_context", client |-> client,
                              st |-> "new", wrapper |-> k, pre |-> pre])]

\* A variant that returns the handle and leaves the patching to the
\* moment the handle is entered.
InstrumentLazily(m, client, suppress, async) ==
    IF Getattr(m.flag, client, "absent") = "True"
    THEN [m EXCEPT !.made = Append(@, [kind |-> "nullcontext", client |-> client,
                                       st |-> "new", wrapper |-> 0,
                                       pre |-> Getattr(m.req, client, Absent)])]
    ELSE LET k == Len(m.closures) + 1
             pre == Getattr(m.req, client, Absent)
         IN [m EXCEPT
               !.closures = Append(@, [client |-> client, original_request_method |-> pre,
                                       suppress_otel |-> suppress, is_async |-> async]),
               !.made = Append(@, [kind |-> "uninstrument_context", client |-> client,
                                   st |-> "new", wrapper |-> k, pre |-> pre])]

instrument_single(m, client, suppress, async) ==
    IF Getattr(m.flag, client, "absent") = "True"
    THEN \* line 65-67: already instrumented, return nullcontext()
         [m EXCEPT !.made = Append(@, [kind |-> "nullcontext", client |-> client,
                                       st |-> "new", wrapper |-> 0,
                                       pre |-> Getattr(m.req, client, Absent)])]
    ELSE \* lines 69-72, 187-190, 207
         InstrumentIgnoringFlag(m, client, suppress, async)

\* Lines 39-54: a collection is instrumented eagerly, client by client.
RECURSIVE instrument_each(_, _, _, _)
instrument_each(m, clients, suppress, async) ==
    IF clients = <<>> THEN m
    ELSE instrument_each(instrument_single(m, Head(clients), suppress, async),
                         Tail(clients), suppress, async)

\* ------------------------------------------------------------ revert
\* Lines 200-205, the release block of uninstrument_context:
\*   client._request = client._original_request_method
\*   del client._original_request_method
\*   client._is_instrumented_by_logfire = False
\* A read or a del of an attribute that is not there raises AttributeError
\* and the rest of the block does not run. `log` lists the clients whose
\* release block was run, in the order it was run.
RevertWithoutRestore(m, client) ==
    IF m.orig[client] = Absent THEN [m EXCEPT !.err = TRUE, !.log = Append(@, client)]
    ELSE [m EXCEPT !.orig[client] = Absent, !.flag[client] = "False",
                   !.log = Append(@, client)]

uninstrument_release(m, client) ==
    LET v == Getattr(m.orig, client, Absent)
        m0 == [m EXCEPT !.log = Append(@, client)] IN
    IF v = Absent THEN [m0 EXCEPT !.err = TRUE]
    ELSE LET m1 == [m0 EXCEPT !.req[client] = v] IN
         IF m1.orig[client] = Absent THEN [m1 EXCEPT !.err = TRUE]
         ELSE [m1 EXCEPT !.orig[client] = Absent, !.flag[client] = "False"]

\* __exit__ of one (sub-)handle: nullcontext does nothing.
exit_one(m, h) ==
    IF h.kind = "uninstrument_context" THEN uninstrument_release(m, h.client) ELSE m

\* A variant that exits the context managers in the order they were entered.
RECURSIVE ExitStackForward(_, _)
ExitStackForward(m, subs) ==
    IF subs = <<>> THEN m
    ELSE ExitStackForward(exit_one(m, Head(subs)), Tail(subs))

\* ExitStack.__exit__ (lines 58-61): the entered context managers are
\* exited last-in first-out; an exception of one does not stop the others.
RECURSIVE exit_stack(_, _)
exit_stack(m, subs) ==
    IF subs = <<>> THEN m
    ELSE exit_stack(exit_one(m, subs[Len(subs)]), SubSeq(subs, 1, Len(subs) - 1))

\* ------------------------------------------- objects of the tool modules
\* Number of operations of the tool modules in one behaviour (each writes
\* one record to `logged`).
MaxLog == 4

\* Attribute values are sequences of strings: <<>> is "no such attribute",
\* <<"True">> a flag, <<"execute">> the function a class defines, and
\* <<"wrapper">> \o f a wrapper whose closure holds the callable f.
NoAttr == <<>>

\* FunctionCall defines execute, SubCall inherits it, Plain has none.
FCClasses == {"FunctionCall", "SubCall", "Plain"}

FCParent(c) == IF c = "SubCall" THEN "FunctionCall" ELSE "none"

FCAttrs == {"execute", "_is_instrumented_by_logfire", "_original_execute"}

\* Tool providers: each defines the tool methods `search` and `news`.
Providers == {"P1", "P2"}

ToolNames == {"search", "news"}

ProviderAttrs == {"_is_instrumented_by_logfire_tools"} \cup ToolNames

\* Tool instances T1 and T2 of the class DuckDuckGoTools, which defines
\* the tool methods.
ToolInstances == {"T1", "T2"}

ToolClass == "DuckDuckGoTools"

InitialObjects ==
    [c \in FCClasses \cup Providers \cup ToolInstances \cup {ToolClass} |->
        IF c \in FCClasses
        THEN [a \in FCAttrs |-> IF c = "FunctionCall" /\ a = "execute" THEN <<"execute">>
                                ELSE NoAttr]
        ELSE IF c \in Providers
        THEN [a \in ProviderAttrs |-> IF a \in ToolNames THEN <<a>> ELSE NoAttr]
        ELSE [a \in ToolNames |-> IF c = ToolClass THEN <<a>> ELSE NoAttr]]

\* getattr(c, a, NoAttr) on a class: its own attribute, else its parent's.
GetAttr(objs, c, a) ==
    IF objs[c][a] # NoAttr THEN objs[c][a]
    ELSE IF FCParent(c) \in FCClasses THEN objs[FCParent(c)][a]
    ELSE NoAttr

\* The tool modules' state as one value: objects, log, and whether the
\* operation under way has raised AttributeError inside a try block.
Tool == [objects |-> objects, logged |-> logged]

Log(st, level, msg, c, pre) ==
    [st EXCEPT !.logged = Append(@, [level |-> level, msg |-> msg, on |-> c, pre |-> pre])]

\* A variant without the check of the instrumented flag.
InstrumentFunctionCallIgnoringFlag(st, c) ==
    LET original_execute == GetAttr(st.objects, c, "execute") IN
    IF original_execute = NoAttr
    THEN Log(st, "raise", "AttributeError", c, NoAttr)
    ELSE Log([st EXCEPT
                !.objects[c]["execute"] = <<"wrapper">> \o original_execute,
                !.objects[c]["_is_instrumented_by_logfire"] = <<"True">>,
                !.objects[c]["_original_execute"] = original_execute],
             "info", "instrumented", c, original_execute)

\* instrument_function_call(function_call_class, tags), function_call.py
\* lines 316-341.
instrument_function_call(st, c) ==
    LET original_execute == GetAttr(st.objects, c, "execute") IN
    IF original_execute = NoAttr                                 \* lines 317-318
    THEN Log(st, "raise", "AttributeError", c, NoAttr)
    ELSE IF GetAttr(st.objects, c, "_is_instrumented_by_logfire") = <<"True">>
    THEN Log(st, "debug", "already instrumented", c, original_execute)  \* lines 321-323
    ELSE Log([st EXCEPT
                !.objects[c]["execute"] = <<"wrapper">> \o original_execute,
                !.objects[c]["_is_instrumented_by_logfire"] = <<"True">>,
                !.objects[c]["_original_execute"] = original_execute],
             "info", "instrumented", c, original_execute)        \* lines 326-338

\* A variant that clears the bookkeeping and leaves the wrapper in place.
UninstrumentKeepingWrapper(st, c) ==
    IF GetAttr(st.objects, c, "_is_instrumented_by_logfire") # <<"True">>
    THEN Log(st, "debug", "not instrumented", c, NoAttr)
    ELSE Log([st EXCEPT !.objects[c]["_is_instrumented_by_logfire"] = NoAttr,
                        !.objects[c]["_original_execute"] = NoAttr],
             "info", "uninstrumented", c, NoAttr)

\* uninstrument_function_call(function_call_class), function_call.py lines
\* 362-381: a read or a delattr of an attribute the class does not have
\* raises AttributeError, which ends the try block and is logged.
uninstrument_function_call(st, c) ==
    IF GetAttr(st.objects, c, "_is_instrumented_by_logfire") # <<"True">>
    THEN Log(st, "debug", "not instrumented", c, NoAttr)         \* lines 362-364
    ELSE LET v == GetAttr(st.objects, c, "_original_execute") IN
         IF v = NoAttr THEN Log(st, "error", "AttributeError", c, NoAttr)
         ELSE LET s1 == [st EXCEPT !.objects[c]["execute"] = v] IN          \* line 368
              IF s1.objects[c]["_is_instrumented_by_logfire"] = NoAttr      \* line 371
              THEN Log(s1, "error", "AttributeError", c, NoAttr)
              ELSE LET s2 == [s1 EXCEPT !.objects[c]["_is_instrumented_by_logfire"] = NoAttr]
                   IN
                   IF s2.objects[c]["_original_execute"] = NoAttr           \* line 372
                   THEN Log(s2, "error", "AttributeError", c, NoAttr)
                   ELSE Log([s2 EXCEPT !.objects[c]["_original_execute"] = NoAttr],
                            "info", "uninstrumented", c, NoAttr)            \* line 374

\* ------------------------------------------------------ tool providers
\* Number of instrument_tool_provider calls in one behaviour.
MaxProviderCalls == 2

\* The `logfire` argument.
LogfireArgs == {"None", "logfire"}

\* The `tool_configs` argument: None, or a list of configs. A "dataclass"
\* config is a ToolConfig of types.py (fields method_name,
\* instrumented_method, ...); a "named" config is an object with the
\* attributes `name` (here "search") and `instrumented_function`.
NoneConfigs == <<"None">>

ToolConfigsArgs == {NoneConfigs, <<>>, <<"named">>, <<"dataclass">>}

\* The `tool_provider` argument: one provider, or an iterable of them.
ProviderTargets ==
    {[iterable |-> FALSE, providers |-> <<p>>] : p \in Providers}
    \cup {[iterable |-> TRUE, providers |-> <<"P1", "P2">>]}

\* tool_config.name of a config that has the attribute: a "news" config
\* names the tool `news`, a "named" config the tool `search`.
ConfigName(cfg) == IF cfg = "news" THEN "news" ELSE "search"

\* original_functions[tool_name] = original_function (line 159) on a dict
\* kept as the sequence of its items in insertion order.
DictSet(d, name, fn) ==
    IF \E i \in DOMAIN d : d[i].name = name
    THEN [i \in DOMAIN d |-> IF d[i].name = name THEN [name |-> name, fn |-> fn] ELSE d[i]]
    ELSE Append(d, [name |-> name, fn |-> fn])

\* _instrument_single_tool (lines 135-177) on r = [objects, originals,
\* exc, handle]. A dataclass config has no attribute `name`: line 150
\* raises AttributeError, and the handler of line 173 reads
\* tool_config.name again, so the AttributeError leaves the function.
\* The providers keep their tools as attributes of their own.
instrument_single_tool(r, p, cfg) ==
    IF cfg = "dataclass"
    THEN [r EXCEPT !.exc = "AttributeError"]
    ELSE IF r.objects[p][ConfigName(cfg)] = NoAttr                        \* lines 153-155
    THEN r
    ELSE [r EXCEPT !.originals = DictSet(@, ConfigName(cfg),
                                         r.objects[p][ConfigName(cfg)]),  \* lines 158-159
                   !.objects[p][ConfigName(cfg)] = <<"instrumented">>]    \* lines 162-169

RECURSIVE instrument_tools_of(_, _, _)
\* The loop of lines 94-95.
instrument_tools_of(r, p, cfgs) ==
    IF cfgs = <<>> \/ r.exc # "none" THEN r
    ELSE instrument_tools_of(instrument_single_tool(r, p, Head(cfgs)), p, Tail(cfgs))

\* Lines 84-97 for one provider; the handle returned for it is
\* nullcontext() or the context of _create_uninstrumentation_context with
\* the provider and its original_functions.
instrument_one_provider(r, p, cfgs) ==
    IF r.objects[p]["_is_instrumented_by_logfire_tools"] = <<"True">>
    THEN [r EXCEPT !.handle = Append(@, [null |-> TRUE, provider |-> p,   \* lines 84-86
                                         originals |-> <<>>])]
    ELSE LET r1 == instrument_tools_of(
                     [r EXCEPT !.objects[p]["_is_instrumented_by_logfire_tools"] = <<"True">>,
                               !.originals = <<>>],
                     p, cfgs)
         IN  IF r1.exc # "none" THEN r1
             ELSE [r1 EXCEPT !.handle = Append(@, [null |-> FALSE, provider |-> p,
                                                   originals |-> r1.originals])]

RECURSIVE instrument_multiple_providers(_, _, _)
\* _instrument_multiple_providers (lines 100-132): the list comprehension
\* instruments the providers in order and stops at the first exception.
instrument_multiple_providers(r, ps, cfgs) ==
    IF ps = <<>> \/ r.exc # "none" THEN r
    ELSE instrument_multiple_providers(instrument_one_provider(r, Head(ps), cfgs),
                                       Tail(ps), cfgs)

\* One record of `logged` for a call of instrument_tool_provider: its
\* arguments, the providers as they were before it, how it ended and the
\* handle it returned.
ProviderLog(st, objs, level, msg, lf, target, cfgs, handle) ==
    [objects |-> objs,
     logged |-> Append(st.logged, [level |-> level, msg |-> msg, on |-> target,
                                   logfire |-> lf, tool_configs |-> cfgs,
                                   before |-> st.objects, handle |-> handle])]

\* The providers are marked before the arguments are validated.
InstrumentValidatingLate(st, lf, target, cfgs) ==
    LET marked == [o \in DOMAIN st.objects |->
                     IF \E i \in 1..Len(target.providers) : target.providers[i] = o
                     THEN [st.objects[o] EXCEPT !["_is_instrumented_by_logfire_tools"] = <<"True">>]
                     ELSE st.objects[o]]
    IN  IF lf = "None" \/ cfgs = NoneConfigs \/ cfgs = <<>>
        THEN ProviderLog(st, marked, "raise", "ValueError", lf, target, cfgs, <<>>)
        ELSE ProviderLog(st, marked, "return", "handle", lf, target, cfgs, <<>>)

\* instrument_tool_provider(logfire, tool_provider, tool_configs), lines
\* 53-97.
instrument_tool_provider(st, lf, target, cfgs) ==
    IF lf = "None"                                                        \* lines 75-76
    THEN ProviderLog(st, st.objects, "raise", "ValueError", lf, target, cfgs, <<>>)
    ELSE IF cfgs = NoneConfigs \/ cfgs = <<>>                             \* lines 77-78
    THEN ProviderLog(st, st.objects, "raise", "ValueError", lf, target, cfgs, <<>>)
    ELSE LET r0 == [objects |-> st.objects, originals |-> <<>>, exc |-> "none",
                    handle |-> <<>>]
             r  == IF target.iterable
                   THEN instrument_multiple_providers(r0, target.providers, cfgs)
                   ELSE instrument_one_provider(r0, target.providers[1], cfgs)
         IN  IF r.exc # "none"
             THEN ProviderLog(st, r.objects, "raise", r.exc, lf, target, cfgs, <<>>)
             ELSE ProviderLog(st, r.objects, "return", "handle", lf, target, cfgs, r.handle)

\* The restore loop stops at the first setattr that raises.
UninstrumentStoppingAtFailure(a, p, originals, fails) ==
    LET firstFail == IF \E i \in DOMAIN originals : originals[i].name \in fails
                     THEN CHOOSE i \in DOMAIN originals :
                            /\ originals[i].name \in fails
                            /\ \A j \in 1..(i - 1) : originals[j].name \notin fails
                     ELSE Len(originals) + 1
    IN  [a EXCEPT
           !.objects[p] = [n \in DOMAIN a.objects[p] |->
                             IF \E i \in 1..(firstFail - 1) : originals[i].name = n
                             THEN (CHOOSE o \in {originals[i] : i \in 1..(firstFail - 1)} :
                                      o.name = n).fn
                             ELSE IF n = "_is_instrumented_by_logfire_tools"
                                     /\ firstFail > Len(originals)
                             THEN <<"False">>
                             ELSE a.objects[p][n]],
           !.attempted = @ \o [i \in 1..(IF firstFail > Len(originals) THEN Len(originals)
                                          ELSE firstFail) |->
                                  [provider |-> p, name |-> originals[i].name]],
           !.raised = @ \/ firstFail <= Len(originals)]

\* _uninstrument_provider(tool_provider, original_functions), lines
\* 277-298, on a = [objects, attempted, errors, raised]: `fails` are the
\* tool names whose setattr raises; each failure is caught and logged
\* (lines 288-291), and the flag is set to False afterwards (lines 294-297).
uninstrument_provider(a, p, originals, fails) ==
    [a EXCEPT
       !.objects[p] = [n \in DOMAIN a.objects[p] |->
                         IF n = "_is_instrumented_by_logfire_tools" THEN <<"False">>
                         ELSE IF n \notin fails /\ \E i \in DOMAIN originals :
                                                     originals[i].name = n
                         THEN (CHOOSE o \in {originals[i] : i \in DOMAIN originals} :
                                  o.name = n).fn
                         ELSE a.objects[p][n]],
       !.attempted = @ \o [i \in DOMAIN originals |->
                              [provider |-> p, name |-> originals[i].name]],
       !.errors = @ \o SelectSeq([i \in DOMAIN originals |->
                                    [provider |-> p, name |-> originals[i].name]],
                                 LAMBDA e : e.name \in fails)]

RECURSIVE exit_provider_contexts(_, _, _)
\* Leaving the handle: the one context of
\* _create_uninstrumentation_context (lines 269-272), or the ExitStack of
\* lines 126-130, which leaves the contexts it entered last first;
\* nullcontext() does nothing.
exit_provider_contexts(a, subs, fails) ==
    IF subs = <<>> THEN a
    ELSE LET sub == subs[Len(subs)]
             rest == SubSeq(subs, 1, Len(subs) - 1)
         IN  exit_provider_contexts(
                IF sub.null THEN a
                ELSE uninstrument_provider(a, sub.provider, sub.originals, fails),
                rest, fails)

\* The handle logged[i] is exited.
exit_provider_handle(st, i, fails) ==
    LET a == exit_provider_contexts(
                [objects |-> st.objects, attempted |-> <<>>, errors |-> <<>>,
                 raised |-> FALSE],
                st.logged[i].handle, fails)
    IN  [objects |-> a.objects,
         logged |-> Append(st.logged,
                           [level |-> IF a.raised THEN "raise" ELSE "return",
                            msg |-> "exited", on |-> st.logged[i].on, of |-> i,
                            fails |-> fails, attempted |-> a.attempted,
                            errors |-> a.errors])]

\* ------------------------------------ instrument_tool / instrument_tools
\* getattr(tool, name) on a tool instance or on the class: the instance's
\* own attribute, else the class's.
ToolAttr(objs, tool, name) ==
    IF objs[tool][name] # NoAttr THEN objs[tool][name] ELSE objs[ToolClass][name]

\* The method names of get_duckduckgo_tool_configs() (duckduckgo.py lines
\* 291-302), in order.
ToolConfigNames == <<"search", "news">>

RECURSIVE instrument_tool_configs(_, _, _)
\* The loop of instrument_tool, lines 475-511: the method found on the
\* tool is wrapped by create_instrumented_method and the wrapper is set
\* on the tool itself.
instrument_tool_configs(objs, tool, names) ==
    IF names = <<>> THEN objs
    ELSE instrument_tool_configs(
            IF ToolAttr(objs, tool, Head(names)) = NoAttr THEN objs        \* lines 483, 506
            ELSE [objs EXCEPT ![tool][Head(names)] =
                     <<"wrapper">> \o ToolAttr(objs, tool, Head(names))],  \* lines 485-496
            tool, Tail(names))

\* instrument_tool(logfire, tool, tool_configs, tags), lines 446-511.
instrument_tool(objs, tool) == instrument_tool_configs(objs, tool, ToolConfigNames)

RECURSIVE instrument_tools(_, _)
\* instrument_tools(logfire, tools), lines 379-443: each tool instance is
\* instrumented, and then its class (lines 432-435).
instrument_tools(objs, tools) ==
    IF tools = <<>> THEN objs
    ELSE instrument_tools(instrument_tool(instrument_tool(objs, Head(tools)), ToolClass),
                          Tail(tools))

RECURSIVE invoke_tool(_)
\* Calling a tool method: each wrapper of create_instrumented_method
\* opens one "Tool Call" span and calls the callable it wraps (lines
\* 337-354); the original method runs the tool.
invoke_tool(fn) ==
    IF fn # <<>> /\ Head(fn) = "wrapper"
    THEN [invoke_tool(Tail(fn)) EXCEPT !.spans = @ + 1]
    ELSE [spans |-> 0, orig_calls |-> 1]

\* --------------------------------------------------- manager actions
Tasks == {"t1", "t2"}

IdleTask == [pc |-> "idle"]

Init ==
    /\ request = [t \in Targets |-> IF t = "cls" THEN OriginalRequest ELSE Absent]
    /\ original_request_method = [t \in Targets |-> Absent]
    /\ is_instrumented_by_logfire = [t \in Targets |-> "absent"]
    /\ closures = <<>>
    /\ handles = <<>>
    /\ is_async \in BOOLEAN
    /\ suppress_otel \in BOOLEAN
    /\ task = [t \in Tasks |-> IdleTask]
    /\ suppressed = [t \in Tasks |-> FALSE]
    /\ tokens = [t \in Tasks |-> <<>>]
    /\ objects = InitialObjects
    /\ logged = <<>>

\* The collections of clients a caller passes (lines 39-54).
Collections == {<<"inst", "cls">>, <<"cls", "inst">>, <<"inst", "inst">>, <<"cls">>}

SetMgr(m) ==
    /\ request' = m.req
    /\ original_request_method' = m.orig
    /\ is_instrumented_by_logfire' = m.flag
    /\ closures' = m.closures

\* instrument_llm_provider(logfire, client, suppress_otel, ...) on one client.
Instrument(client) ==
    /\ Len(handles) < MaxInstall
    /\ LET m == instrument_single(Mgr, client, suppress_otel, is_async) IN
       /\ SetMgr(m)
       /\ handles' = Append(handles, [kind |-> m.made[1].kind, client |-> client, st |-> "new",
                                      wrapper |-> m.made[1].wrapper, pre |-> m.made[1].pre,
                                      subs |-> <<>>, reverted |-> <<>>])
    /\ UNCHANGED <<toolvars, is_async, suppress_otel, task, suppressed, tokens>>

\* instrument_llm_provider on an Iterable of clients (lines 39-63).
InstrumentMany(clients) ==
    /\ Len(handles) < MaxInstall
    /\ LET m == instrument_each(Mgr, clients, suppress_otel, is_async) IN
       /\ SetMgr(m)
       /\ handles' = Append(handles, [kind |-> "exit_stack", client |-> "none", st |-> "new",
                                      wrapper |-> 0, pre |-> Absent, subs |-> m.made,
                                      reverted |-> <<>>])
    /\ UNCHANGED <<toolvars, is_async, suppress_otel, task, suppressed, tokens>>

\* __enter__ of a returned handle: the generator runs to its yield (line
\* 201; line 58-61 enters every sub-handle, each of which runs to its yield).
EnterHandle(h) ==
    /\ handles[h].st = "new"
    /\ handles' = [handles EXCEPT ![h].st = "entered"]
    /\ UNCHANGED <<toolvars, request, original_request_method, is_instrumented_by_logfire, closures,
                   is_async, suppress_otel, task, suppressed, tokens>>

\* __exit__ of a returned handle: the release block runs (lines 202-205),
\* for an ExitStack over every sub-handle in reverse order.
ExitHandle(h) ==
    /\ handles[h].st = "entered"
    /\ LET m == IF handles[h].kind = "exit_stack" THEN exit_stack(Mgr, handles[h].subs)
                ELSE exit_one(Mgr, handles[h]) IN
       /\ SetMgr(m)
       /\ handles' = [handles EXCEPT ![h].st = IF m.err THEN "raised" ELSE "exited",
                                      ![h].reverted = m.log]
    /\ UNCHANGED <<toolvars, is_async, suppress_otel, task, suppressed, tokens>>

\* ----------------------------------------------- suppression context
\* suppress_instrumentation() of logfire/_internal/utils.py: a scope that
\* saves the current value, sets suppression, and restores the saved value
\* when it is left, on every exit path.
suppress_enter(ctx) == [on |-> TRUE, tokens |-> Append(ctx.tokens, ctx.on)]

suppress_exit(ctx) ==
    [on |-> ctx.tokens[Len(ctx.tokens)], tokens |-> SubSeq(ctx.tokens, 1, Len(ctx.tokens) - 1)]

\* A variant that leaves the suppression scope before the guarded block
\* runs: the block is not covered by the scope.
MaybeSuppressEnterScopeClosedEarly(ctx, suppress) ==
    IF suppress THEN [on |-> ctx.on, tokens |-> Append(ctx.tokens, ctx.on)] ELSE ctx

\* A variant that never leaves the scope it entered.
MaybeSuppressExitLeaking(ctx, suppress) == ctx

\* maybe_suppress_instrumentation(suppress), lines 210-216.
maybe_suppress_enter(ctx, suppress) == IF suppress THEN suppress_enter(ctx) ELSE ctx

maybe_suppress_exit(ctx, suppress) == IF suppress THEN suppress_exit(ctx) ELSE ctx

Ctx(t) == [on |-> suppressed[t], tokens |-> tokens[t]]

SetCtx(t, ctx) ==
    /\ suppressed' = [suppressed EXCEPT ![t] = ctx.on]
    /\ tokens' = [tokens EXCEPT ![t] = ctx.tokens]

\* ------------------------------------------------------------- tracer
\* The span capability of logfire/_internal/main.py (LogfireSpan): a span
\* is opened with a name and initial attributes, takes attributes and
\* events while open, records the exception its scope is left with, and
\* is closed when its scope exits; leaving the scope never swallows the
\* exception.
span_open(spans, name, attrs, by) ==
    Append(spans, [name |-> name, attrs |-> attrs, by |-> by, open |-> TRUE,
                   response_model |-> "unset",
                   response_data |-> <<"unset">>, streaming_duration |-> FALSE,
                   events |-> 0, exception |-> "none", writes_after_close |-> 0])

span_close(spans, exc) ==
    [spans EXCEPT ![Len(spans)].open = FALSE, ![Len(spans)].exception = exc]

span_set_attribute(spans, key, value) ==
    LET n == Len(spans) IN
    IF ~spans[n].open THEN [spans EXCEPT ![n].writes_after_close = @ + 1]
    ELSE IF key = "response_model" THEN [spans EXCEPT ![n].response_model = value]
    ELSE IF key = "response_data" THEN [spans EXCEPT ![n].response_data = value]
    ELSE [spans EXCEPT ![n].streaming_duration = TRUE]

span_add_event(spans) ==
    LET n == Len(spans) IN
    IF ~spans[n].open THEN [spans EXCEPT ![n].writes_after_close = @ + 1]
    ELSE [spans EXCEPT ![n].events = @ + 1]

\* ------------------------------------------------------ the call's inputs
\* kwargs of the intercepted call: `stream` and `stream_cls` (the library
\* passes a stream class whenever it asks for a stream: the assert of
\* line 101 states it).
Kwargs == {[stream |-> FALSE, stream_cls |-> "None"],
           [stream |-> TRUE, stream_cls |-> "Stream"]}

\* What get_endpoint_config_fn(kwargs['options']) returns: the message
\* template ("None" and the empty string are both falsy) and whether a
\* stream state class comes with it.
\* The span data it returns holds the attribute model="x" and, with
\* request_model other than "absent", a 'request_data' dict with a 'model'
\* (drawn for the configs without a stream state class).
Configs ==
    {cf \in [message_template : {"None", "", "Call {model}"}, stream_state_cls : BOOLEAN,
             request_model : {"absent", "gpt"}] :
        \/ cf.request_model = "absent"
        \/ cf.message_template = "Call {model}" /\ ~cf.stream_state_cls}

\* The scope_suffix argument of instrument_llm_provider (line 23).
ScopeSuffix == "OpenAI"

\* Texts are sequences of their parts. A span's name is its message
\* template formatted with its attributes (logfire/_internal/main.py).
FormatTemplate(template, attrs) ==
    IF template = <<"Call {model}">> THEN <<"Call", attrs.model>> ELSE template

NoSpanData == [model |-> "unset", request_model |-> "unset", async |-> FALSE,
               parent_message_template |-> <<"unset">>]

\* What the original `_request` does with the call: a response without a
\* model, a response object with a `model` attribute, a dict with a
\* 'model' key, or an exception. With stream=True a returned response is
\* an instance of the stream class it was given.
Outcomes == {"response", "response_model", "dict_model", "raise_E"}

HasModel(r) == r \in {"response_model", "dict_model"}

NoResult == [kind |-> "none", val |-> "none", cls |-> "None"]

\* The result of the original for the kwargs it was called with.
OriginalResult(outcome, kwargs) ==
    IF outcome = "raise_E" THEN [kind |-> "raise", val |-> "E", cls |-> "None"]
    ELSE IF kwargs.stream THEN [kind |-> "stream", val |-> outcome, cls |-> kwargs.stream_cls]
    ELSE [kind |-> "return", val |-> outcome, cls |-> "None"]

\* on_response_fn(response, span): the integration's hook; its result is
\* what the wrapper returns (line 159).
on_response_fn(r) == [kind |-> "return", val |-> "on_response", cls |-> r.val]

\* ctx is the suppression context the caller is in when it makes the call.
NewCall(k, kwargs, config, outcome, ctx) ==
    [pc |-> "setup", wrapper |-> k, caller_kwargs |-> kwargs, kwargs |-> kwargs,
     config |-> config, outcome |-> outcome, entry_suppressed |-> ctx.on,
     entry_tokens |-> ctx.tokens,
     message_template |-> "unset", parent_message_template |-> <<"unset">>,
     span_data |-> NoSpanData,
     path |-> "none", spans |-> <<>>, orig_calls |-> 0, orig_kwargs |-> <<>>,
     orig_suppressed |-> <<>>, response |-> NoResult, result |-> NoResult,
     pulled |-> <<>>, stream_state |-> <<>>, states_made |-> 0, yielded |-> <<>>,
     source_end |-> "none", finalized |-> 0, stream_result |-> "none", log |-> <<>>,
     fault |-> "none", bk_raised |-> FALSE]

\* A collaborator that raises when the wrapper uses it during the call: the
\* resolver get_endpoint_config_fn (line 83), the span's set_attribute
\* (lines 156, 158, 232, 234, 248), on_response_fn (line 159), the stream
\* state's record_chunk (line 235) or its get_response_data (line 243).
\* "none" is a call whose collaborators all return.
Faults == {"resolver", "set_attribute", "on_response_fn", "record_chunk",
           "get_response_data"}

\* The exception a failing resolver / a failing bookkeeping step raises.
ResolverError == [kind |-> "raise", val |-> "R", cls |-> "None"]

BookkeepingError == [kind |-> "raise", val |-> "B", cls |-> "None"]

\* ------------------------------------------- _instrumentation_setup
\* Lines 79-130. Returns the call with message_template, span data and
\* kwargs as the wrapper receives them.
setup_instrumented(c, template, cl) ==
    LET streaming == c.kwargs.stream /\ c.config.stream_state_cls
        llm_name == ScopeSuffix                                  \* line 77
        model_name == IF c.config.request_model = "absent"       \* line 88
                      THEN "unknown" ELSE c.config.request_model
        parent_message_template ==                               \* lines 91-95
            IF c.kwargs.stream THEN <<"LLM ", llm_name, " Stream Call: ", model_name>>
            ELSE <<"LLM ", llm_name, " Call: ", model_name>>
    IN
    [c EXCEPT !.message_template = template,
              !.parent_message_template = parent_message_template,
              !.span_data = [model |-> "x", request_model |-> c.config.request_model,
                             async |-> cl.is_async,              \* lines 87, 97
                             parent_message_template |-> parent_message_template],
              !.kwargs.stream_cls =                              \* lines 99-128
                  IF ~streaming THEN @
                  ELSE IF cl.is_async THEN "LogfireInstrumentedAsyncStream"
                  ELSE "LogfireInstrumentedStream"]

SetupIgnoringSentinel(c, is_suppressed, cl) ==
    IF is_suppressed THEN [c EXCEPT !.message_template = "None"]
    ELSE setup_instrumented(c, "Call {model}", cl)

SetupIgnoringSuppression(c, is_suppressed, cl) ==
    IF c.config.message_template \in {"None", ""}
    THEN [c EXCEPT !.message_template = "None"]
    ELSE setup_instrumented(c, c.config.message_template, cl)

_instrumentation_setup(c, is_suppressed, cl) ==
    IF is_suppressed
    THEN [c EXCEPT !.message_template = "None"]                  \* lines 80-81
    ELSE IF c.fault = "resolver"                                 \* line 83 raises
    THEN [c EXCEPT !.message_template = "raised", !.result = ResolverError]
    ELSE IF c.config.message_template \in {"None", ""}
    THEN [c EXCEPT !.message_template = "None"]                  \* lines 84-85
    ELSE setup_instrumented(c, c.config.message_template, cl)

RequestPathWithOwnSpan(c) ==
    IF c.message_template = "None" THEN "passthrough" ELSE "non_stream"

\* Lines 137-149 (163-175): which branch the wrapper takes.
request_path(c) ==
    IF c.message_template = "raised" THEN "raised"               \* line 136 raises
    ELSE IF c.message_template = "None" THEN "passthrough"
    ELSE IF c.kwargs.stream THEN "stream"
    ELSE "non_stream"

\* -------------------------------------------------- the request wrapper
\* original_request_method(*args, **kwargs), lines 138, 148, 153 (164, 174,
\* 179): the wrapper calls the callable its closure captured at install.
invoke_original(c, is_suppressed) ==
    [c EXCEPT !.orig_calls = @ + 1,
              !.orig_kwargs = Append(@, c.kwargs),
              !.orig_suppressed = Append(@, is_suppressed),
              !.response = OriginalResult(c.outcome, c.kwargs),
              !.log = Append(@, "original"),
              !.pc = "returned"]

\* What the wrapper does with the original's return value or exception,
\* lines 138, 148 and 153-159 (164, 174 and 179-185).
AfterOriginalSwallowing(c) ==
    IF c.path = "passthrough" THEN [c EXCEPT !.result = c.response, !.pc = "done"]
    ELSE IF c.path = "stream" THEN [c EXCEPT !.result = c.response, !.pc = "suppress_exit"]
    ELSE IF c.response.kind = "raise"
    THEN [c EXCEPT !.result = [kind |-> "return", val |-> "None", cls |-> "None"],
                   !.pc = "suppress_exit"]
    ELSE [c EXCEPT !.result = on_response_fn(c.response), !.pc = "suppress_exit"]

after_original(c) ==
    IF c.path = "passthrough"
    THEN [c EXCEPT !.result = c.response, !.pc = "done",
                   !.log = Append(@, "outcome")]
    ELSE IF c.path = "stream"
    THEN [c EXCEPT !.result = c.response, !.pc = "suppress_exit"]
    ELSE IF c.response.kind = "raise"
    THEN \* the exception leaves both `with` blocks
         [c EXCEPT !.result = c.response, !.pc = "suppress_exit"]
    ELSE IF HasModel(c.response.val) /\ c.fault = "set_attribute"
    THEN \* lines 156, 158 raise: the exception leaves both `with` blocks
         [c EXCEPT !.result = BookkeepingError, !.pc = "suppress_exit"]
    ELSE [c EXCEPT
            !.spans = IF HasModel(c.response.val)                \* lines 155-158
                      THEN span_set_attribute(@, "response_model", c.response.val)
                      ELSE @,
            !.result = IF c.fault = "on_response_fn"             \* line 159
                       THEN BookkeepingError ELSE on_response_fn(c.response),
            !.log = Append(@, "on_response"),
            !.pc = "suppress_exit"]

\* A caller invokes target._request(**kwargs) on an instrumented target.
CallStart(t, target, kwargs, config, outcome) ==
    /\ task[t].pc = "idle"
    /\ Getattr(request, target, Absent).kind = "wrapper"
    /\ task' = [task EXCEPT ![t] = NewCall(Getattr(request, target, Absent).id, kwargs,
                                           config, outcome, Ctx(t))]
    /\ UNCHANGED <<toolvars, mgrvars, is_async, suppress_otel, suppressed, tokens>>

\* The same, for a call during which one collaborator raises.
CallStartFaulty(t, target, kwargs, config, outcome, fault) ==
    /\ task[t].pc = "idle"
    /\ Getattr(request, target, Absent).kind = "wrapper"
    /\ task' = [task EXCEPT ![t] =
                  [NewCall(Getattr(request, target, Absent).id, kwargs, config, outcome,
                           Ctx(t)) EXCEPT !.fault = fault]]
    /\ UNCHANGED <<toolvars, mgrvars, is_async, suppress_otel, suppressed, tokens>>

\* The caller is done with the call's result (and with its stream, if it
\* consumed one to the end) and goes on.
CallEnd(t) ==
    /\ task[t].pc \in {"done", "s_done"}
    /\ task' = [task EXCEPT ![t] = IdleTask]
    /\ UNCHANGED <<toolvars, mgrvars, is_async, suppress_otel, suppressed, tokens>>

\* Lines 136-149: _instrumentation_setup, then the branch.
Setup(t) ==
    /\ task[t].pc = "setup"
    /\ LET c == _instrumentation_setup(task[t], suppressed[t], closures[task[t].wrapper])
           path == request_path(c) IN
       task' = [task EXCEPT ![t] =
                   [c EXCEPT !.path = path,
                             !.pc = IF path = "raised" THEN "done"
                                    ELSE IF path = "passthrough" THEN "call"
                                    ELSE IF path = "stream" THEN "suppress_enter"
                                    ELSE "span_open"]]
    /\ UNCHANGED <<toolvars, mgrvars, is_async, suppress_otel, suppressed, tokens>>

\* A variant that names the span after the resolver's message template.
SpanNameFromResolverTemplate(c) == FormatTemplate(<<c.message_template>>, c.span_data)

\* The name of the span of line 151 (177): parent_message_template is
\* the message template handed to logfire_llm.span.
span_name(c) == FormatTemplate(c.parent_message_template, c.span_data)

\* Line 151 (177): with logfire_llm.span(parent_message_template, **span_data).
SpanOpen(t) ==
    /\ task[t].pc = "span_open"
    /\ task' = [task EXCEPT ![t].spans = span_open(@, span_name(task[t]), task[t].span_data,
                                                   "request"),
                            ![t].log = Append(@, "span_open"),
                            ![t].pc = "suppress_enter"]
    /\ UNCHANGED <<toolvars, mgrvars, is_async, suppress_otel, suppressed, tokens>>

\* Lines 147, 152 (173, 178): with maybe_suppress_instrumentation(suppress_otel).
EnterSuppress(t) ==
    /\ task[t].pc = "suppress_enter"
    /\ SetCtx(t, maybe_suppress_enter(Ctx(t), closures[task[t].wrapper].suppress_otel))
    /\ task' = [task EXCEPT ![t].pc = "call"]
    /\ UNCHANGED <<toolvars, mgrvars, is_async, suppress_otel>>

InvokeOriginal(t) ==
    /\ task[t].pc = "call"
    /\ closures[task[t].wrapper].original_request_method = OriginalRequest
    /\ task' = [task EXCEPT ![t] = invoke_original(task[t], suppressed[t])]
    /\ UNCHANGED <<toolvars, mgrvars, is_async, suppress_otel, suppressed, tokens>>

AfterOriginal(t) ==
    /\ task[t].pc = "returned"
    /\ task' = [task EXCEPT ![t] = after_original(task[t])]
    /\ UNCHANGED <<toolvars, mgrvars, is_async, suppress_otel, suppressed, tokens>>

\* Leaving `with maybe_suppress_instrumentation(suppress_otel)`.
ExitSuppress(t) ==
    /\ task[t].pc = "suppress_exit"
    /\ SetCtx(t, maybe_suppress_exit(Ctx(t), closures[task[t].wrapper].suppress_otel))
    /\ task' = [task EXCEPT ![t].pc = IF task[t].path = "non_stream" THEN "span_close"
                                      ELSE "done",
                            ![t].log = IF task[t].path = "non_stream" THEN @
                                       ELSE Append(@, "outcome")]
    /\ UNCHANGED <<toolvars, mgrvars, is_async, suppress_otel>>

\* Leaving `with logfire_llm.span(...)` of line 151 (177); then the caller
\* has the result or the exception.
SpanClose(t) ==
    /\ task[t].pc = "span_close"
    /\ task' = [task EXCEPT
                  ![t].spans = span_close(@, IF task[t].result.kind = "raise"
                                             THEN task[t].result.val ELSE "none"),
                  ![t].log = @ \o <<"span_close", "outcome">>,
                  ![t].pc = "done"]
    /\ UNCHANGED <<toolvars, mgrvars, is_async, suppress_otel, suppressed, tokens>>

\* ------------------------------------------------ the instrumented stream
\* Chunks a source can produce: an object with a `model` attribute, a dict
\* with a 'model' key, a chunk without a model, and a falsy chunk (None,
\* an empty dict).
Chunks == {"chunk_m1", "dict_m2", "chunk", "empty"}

Truthy(chunk) == chunk # "empty"

ChunkHasModel(chunk) == chunk \in {"chunk_m1", "dict_m2"}

InstrumentedStreams == {"LogfireInstrumentedStream", "LogfireInstrumentedAsyncStream"}

\* StreamState of llm_providers/types.py: record_chunk accumulates, and
\* get_response_data returns the aggregate of what was recorded.
state_record_chunk(state, chunk) == Append(state, chunk)

get_response_data(state) == state

\* record_chunk of record_streaming, lines 228-235.
RecordChunkUnguarded(c, chunk) ==
    [c EXCEPT !.spans = IF ChunkHasModel(chunk)
                        THEN span_set_attribute(@, "response_model", chunk) ELSE @,
              !.stream_state = state_record_chunk(@, chunk)]

record_chunk(c, chunk) ==
    IF ~Truthy(chunk) THEN c
    ELSE IF ChunkHasModel(chunk) /\ c.fault = "set_attribute"    \* lines 232, 234 raise
    THEN [c EXCEPT !.bk_raised = TRUE]
    ELSE IF c.fault = "record_chunk"                             \* line 235 raises
    THEN [c EXCEPT !.spans = IF ChunkHasModel(chunk)
                             THEN span_set_attribute(@, "response_model", chunk) ELSE @,
                   !.bk_raised = TRUE]
    ELSE [c EXCEPT !.spans = IF ChunkHasModel(chunk)
                             THEN span_set_attribute(@, "response_model", chunk) ELSE @,
                   !.stream_state = state_record_chunk(@, chunk)]

\* The release block of record_streaming, lines 241-256 (parent_span is
\* the span __stream__ opened).
ReleaseOnlyOnExhaustion(c) ==
    IF c.source_end = "raise_S" THEN c
    ELSE [c EXCEPT !.finalized = @ + 1,
                   !.spans = span_add_event(
                               span_set_attribute(
                                 span_set_attribute(@, "response_data",
                                                    get_response_data(c.stream_state)),
                                 "streaming_duration", "duration")),
                   !.log = Append(@, "finalize")]

\* A variant whose release is an `except Exception:` clause plus the
\* normal end of the block: CancelledError and GeneratorExit pass it by.
ReleaseSkippingBaseExceptions(c) ==
    IF c.source_end \in {"cancelled", "closed"} THEN c
    ELSE [c EXCEPT !.finalized = @ + 1,
                   !.spans = span_add_event(
                               span_set_attribute(
                                 span_set_attribute(@, "response_data",
                                                    get_response_data(c.stream_state)),
                                 "streaming_duration", "duration")),
                   !.log = Append(@, "finalize")]

record_streaming_release(c) ==
    IF c.fault \in {"get_response_data", "set_attribute"}        \* lines 243, 248 raise
    THEN [c EXCEPT !.finalized = @ + 1, !.bk_raised = TRUE, !.log = Append(@, "finalize")]
    ELSE
    [c EXCEPT !.finalized = @ + 1,
              !.spans = span_add_event(
                          span_set_attribute(
                            span_set_attribute(@, "response_data",
                                               get_response_data(c.stream_state)),
                            "streaming_duration", "duration")),
              !.log = Append(@, "finalize")]

\* What the consumer of __stream__ sees when the chunk loop is over (lines
\* 108-113, 121-126): the source's exception passes through both `with`
\* blocks unchanged; exhaustion ends the generator.
StreamOutcomeSwallowing(c) == "StopIteration"

stream_outcome(c) ==
    IF c.bk_raised THEN "raise_B"
    ELSE IF c.source_end = "raise_S" THEN "raise_S"
    ELSE IF c.source_end = "cancelled" THEN "raise_CancelledError"
    ELSE IF c.source_end = "closed" THEN "closed"
    ELSE "StopIteration"

\* The exception the `with` blocks of __stream__ are left with.
stream_exception(c) ==
    IF c.bk_raised THEN "B"
    ELSE IF c.source_end = "raise_S" THEN "S"
    ELSE IF c.source_end = "cancelled" THEN "CancelledError"
    ELSE IF c.source_end = "closed" THEN "GeneratorExit"
    ELSE "none"

\* First pull on the stream object the call returned: __stream__ starts,
\* lines 106-110 / 119-123: the parent span is opened and record_streaming
\* makes a fresh stream state (lines 226, 237-240).
StreamStart(t) ==
    /\ task[t].pc = "done"
    /\ task[t].result.kind = "stream"
    /\ task[t].result.cls \in InstrumentedStreams
    /\ task' = [task EXCEPT
                  ![t].spans = span_open(@, FormatTemplate(task[t].parent_message_template,
                                                           task[t].span_data),
                                         task[t].span_data, "stream"),
                  ![t].stream_state = <<>>,
                  ![t].states_made = @ + 1,
                  ![t].log = Append(@, "stream_span_open"),
                  ![t].pc = "s_pull"]
    /\ UNCHANGED <<toolvars, mgrvars, is_async, suppress_otel, suppressed, tokens>>

\* super().__stream__() produces the next chunk (lines 111, 124).
SourceYield(t, chunk) ==
    /\ task[t].pc = "s_pull"
    /\ Len(task[t].pulled) < MaxChunks
    /\ task' = [task EXCEPT ![t].pulled = Append(@, chunk), ![t].pc = "s_record"]
    /\ UNCHANGED <<toolvars, mgrvars, is_async, suppress_otel, suppressed, tokens>>

\* super().__stream__() is exhausted, or raises.
SourceEnd(t, how) ==
    /\ task[t].pc = "s_pull"
    /\ task' = [task EXCEPT ![t].source_end = how, ![t].pc = "s_release"]
    /\ UNCHANGED <<toolvars, mgrvars, is_async, suppress_otel, suppressed, tokens>>

\* A variant in which the stream state and the parent span belong to the
\* wrapper and not to the call: a chunk is recorded for every call whose
\* stream is open.
RecordChunkShared(tasks, t) ==
    [u \in DOMAIN tasks |->
        IF u = t \/ tasks[u].pc \in {"s_pull", "s_record", "s_yield", "s_suspended"}
        THEN LET c == record_chunk(tasks[u], tasks[t].pulled[Len(tasks[t].pulled)]) IN
             IF u = t THEN [c EXCEPT !.pc = IF c.bk_raised THEN "s_release" ELSE "s_yield"]
             ELSE c
        ELSE tasks[u]]

\* record_chunk(chunk) in the chunk loop of the call of task t (lines 112,
\* 125): record_chunk, stream_state and parent_span are locals of that
\* call's __stream__ and record_streaming (lines 108-110, 226-228).
record_chunk_of(tasks, t) ==
    [tasks EXCEPT ![t] =
        LET c == record_chunk(tasks[t], tasks[t].pulled[Len(tasks[t].pulled)]) IN
        [c EXCEPT !.pc = IF c.bk_raised THEN "s_release" ELSE "s_yield"]]

\* record_chunk(chunk), lines 112, 125.
RecordChunk(t) ==
    /\ task[t].pc = "s_record"
    /\ task' = record_chunk_of(task, t)
    /\ UNCHANGED <<toolvars, mgrvars, is_async, suppress_otel, suppressed, tokens>>

\* yield chunk, lines 113, 126: the consumer receives the chunk.
YieldChunk(t) ==
    /\ task[t].pc = "s_yield"
    /\ task' = [task EXCEPT ![t].yielded = Append(@, task[t].pulled[Len(task[t].pulled)]),
                            ![t].pc = "s_suspended"]
    /\ UNCHANGED <<toolvars, mgrvars, is_async, suppress_otel, suppressed, tokens>>

\* The consumer asks for the next chunk: the generator resumes.
ConsumerNext(t) ==
    /\ task[t].pc = "s_suspended"
    /\ task' = [task EXCEPT ![t].pc = "s_pull"]
    /\ UNCHANGED <<toolvars, mgrvars, is_async, suppress_otel, suppressed, tokens>>

\* The `with record_streaming(...)` block is left (exhaustion or error).
Finalize(t) ==
    /\ task[t].pc = "s_release"
    /\ task' = [task EXCEPT ![t] = [record_streaming_release(task[t])
                                      EXCEPT !.pc = "s_span_close"]]
    /\ UNCHANGED <<toolvars, mgrvars, is_async, suppress_otel, suppressed, tokens>>

\* The `with logfire_llm.span(...)` block of __stream__ is left; the
\* consumer then sees the end of the stream or the source's exception.
StreamSpanClose(t) ==
    /\ task[t].pc = "s_span_close"
    /\ task' = [task EXCEPT
                  ![t].spans = span_close(@, stream_exception(task[t])),
                  ![t].stream_result = stream_outcome(task[t]),
                  ![t].log = Append(@, "stream_span_close"),
                  ![t].pc = "s_done"]
    /\ UNCHANGED <<toolvars, mgrvars, is_async, suppress_otel, suppressed, tokens>>

\* The task consuming an async stream is cancelled while __stream__ awaits
\* the next chunk of super().__stream__() (line 111): CancelledError is
\* raised at that await.
Cancel(t) ==
    /\ task[t].pc = "s_pull"
    /\ closures[task[t].wrapper].is_async
    /\ task' = [task EXCEPT ![t].source_end = "cancelled", ![t].pc = "s_release"]
    /\ UNCHANGED <<toolvars, mgrvars, is_async, suppress_otel, suppressed, tokens>>

\* The consumer stops asking for chunks and lets go of the stream: the
\* generator stays suspended at its yield (lines 113, 126).
Abandon(t) ==
    /\ task[t].pc = "s_suspended"
    /\ task' = [task EXCEPT ![t].pc = "s_abandoned"]
    /\ UNCHANGED <<toolvars, mgrvars, is_async, suppress_otel, suppressed, tokens>>

\* The runtime closes the abandoned generator (close()/aclose(), or its
\* finalizer when it is collected): GeneratorExit is raised at the yield.
GeneratorClose(t) ==
    /\ task[t].pc = "s_abandoned"
    /\ task' = [task EXCEPT ![t].source_end = "closed", ![t].pc = "s_release"]
    /\ UNCHANGED <<toolvars, mgrvars, is_async, suppress_otel, suppressed, tokens>>

\* ------------------------------------------------- the caller's own scopes
\* Depth of the suppression scopes a caller opens around its calls.
MaxNest == 2

\* The caller enters / leaves `with suppress_instrumentation():`.
CallerSuppress(t) ==
    /\ task[t].pc \in {"idle", "done", "s_done"}
    /\ Len(tokens[t]) < MaxNest
    /\ SetCtx(t, suppress_enter(Ctx(t)))
    /\ UNCHANGED <<toolvars, mgrvars, is_async, suppress_otel, task>>

CallerUnsuppress(t) ==
    /\ task[t].pc \in {"idle", "done", "s_done"}
    /\ tokens[t] # <<>>
    /\ SetCtx(t, suppress_exit(Ctx(t)))
    /\ UNCHANGED <<toolvars, mgrvars, is_async, suppress_otel, task>>

\* One install, then calls made one after the other by one task.
InstallOnce(client) == closures = <<>> /\ Instrument(client)

NextCall ==
    \/ \E c \in Targets : InstallOnce(c)
    \/ CallerSuppress("t1")
    \/ CallerUnsuppress("t1")
    \/ \E tg \in Targets, kw \in Kwargs, cf \in Configs, out \in Outcomes :
          CallStart("t1", tg, kw, cf, out)
    \/ CallEnd("t1")
    \/ Setup("t1")
    \/ SpanOpen("t1")
    \/ EnterSuppress("t1")
    \/ InvokeOriginal("t1")
    \/ AfterOriginal("t1")
    \/ ExitSuppress("t1")
    \/ SpanClose("t1")
    \/ StreamStart("t1")
    \/ \E ch \in Chunks : SourceYield("t1", ch)
    \/ \E how \in {"exhausted", "raise_S"} : SourceEnd("t1", how)
    \/ RecordChunk("t1")
    \/ YieldChunk("t1")
    \/ ConsumerNext("t1")
    \/ Finalize("t1")
    \/ StreamSpanClose("t1")

SpecCall == Init /\ [][NextCall]_vars

\* One install, then calls during each of which one collaborator raises.
NextFault ==
    \/ \E c \in Targets : InstallOnce(c)
    \/ \E tg \in Targets, kw \in Kwargs, cf \in Configs, out \in Outcomes, f \in Faults :
          CallStartFaulty("t1", tg, kw, cf, out, f)
    \/ CallEnd("t1")
    \/ Setup("t1")
    \/ SpanOpen("t1")
    \/ EnterSuppress("t1")
    \/ InvokeOriginal("t1")
    \/ AfterOriginal("t1")
    \/ ExitSuppress("t1")
    \/ SpanClose("t1")
    \/ StreamStart("t1")
    \/ \E ch \in Chunks : SourceYield("t1", ch)
    \/ \E how \in {"exhausted", "raise_S"} : SourceEnd("t1", how)
    \/ RecordChunk("t1")
    \/ YieldChunk("t1")
    \/ ConsumerNext("t1")
    \/ Finalize("t1")
    \/ StreamSpanClose("t1")

SpecFault == Init /\ [][NextFault]_vars

\* One install, then calls whose streams may also be cancelled or
\* abandoned by their consumer. A generator that is running goes on
\* running, and the runtime closes a generator that was let go of.
NextStream ==
    \/ \E c \in Targets : InstallOnce(c)
    \/ \E tg \in Targets, kw \in Kwargs, cf \in Configs, out \in Outcomes :
          CallStart("t1", tg, kw, cf, out)
    \/ CallEnd("t1")
    \/ Setup("t1")
    \/ SpanOpen("t1")
    \/ EnterSuppress("t1")
    \/ InvokeOriginal("t1")
    \/ AfterOriginal("t1")
    \/ ExitSuppress("t1")
    \/ SpanClose("t1")
    \/ StreamStart("t1")
    \/ \E ch \in Chunks : SourceYield("t1", ch)
    \/ \E how \in {"exhausted", "raise_S"} : SourceEnd("t1", how)
    \/ RecordChunk("t1")
    \/ YieldChunk("t1")
    \/ ConsumerNext("t1")
    \/ Finalize("t1")
    \/ StreamSpanClose("t1")
    \/ Cancel("t1")
    \/ Abandon("t1")
    \/ GeneratorClose("t1")

\* One install, then calls made by two tasks (threads, or async tasks that
\* interleave at their awaits) at the same time. Each task's source
\* produces its own chunks.
TaskChunks(t) == IF t = "t1" THEN {"chunk_m1", "empty"} ELSE {"dict_m2", "chunk"}

ConcurrentConfigs ==
    {cf \in Configs : cf.message_template = "Call {model}" /\ cf.request_model = "absent"}

NextConcurrent ==
    \/ \E c \in Targets : InstallOnce(c)
    \/ \E t \in Tasks :
          \/ \E tg \in Targets, kw \in Kwargs, cf \in ConcurrentConfigs :
                CallStart(t, tg, kw, cf, "response_model")
          \/ CallEnd(t)
          \/ Setup(t)
          \/ SpanOpen(t)
          \/ EnterSuppress(t)
          \/ InvokeOriginal(t)
          \/ AfterOriginal(t)
          \/ ExitSuppress(t)
          \/ SpanClose(t)
          \/ StreamStart(t)
          \/ \E ch \in TaskChunks(t) : SourceYield(t, ch)
          \/ SourceEnd(t, "exhausted")
          \/ RecordChunk(t)
          \/ YieldChunk(t)
          \/ ConsumerNext(t)
          \/ Finalize(t)
          \/ StreamSpanClose(t)

SpecConcurrent == Init /\ [][NextConcurrent]_vars

SpecStream ==
    /\ Init /\ [][NextStream]_vars
    /\ WF_vars(GeneratorClose("t1"))
    /\ WF_vars(Finalize("t1"))
    /\ WF_vars(StreamSpanClose("t1"))

Next ==
    \/ \E c \in Targets : Instrument(c)
    \/ \E cs \in Collections : InstrumentMany(cs)
    \/ \E h \in DOMAIN handles : EnterHandle(h)
    \/ \E h \in DOMAIN handles : ExitHandle(h)

Spec == Init /\ [][Next]_vars

\* Code outside this module removes the `_original_request_method`
\* attribute of an instrumented target between instrument and revert.
ExternalDelete(client) ==
    /\ original_request_method[client] # Absent
    /\ original_request_method' = [original_request_method EXCEPT ![client] = Absent]
    /\ UNCHANGED <<toolvars, request, is_instrumented_by_logfire, closures, handles,
                   is_async, suppress_otel, task, suppressed, tokens>>

\* The interception manager on targets that other code may touch.
NextRevert ==
    \/ \E c \in Targets : Instrument(c)
    \/ \E cs \in Collections : InstrumentMany(cs)
    \/ \E h \in DOMAIN handles : EnterHandle(h)
    \/ \E h \in DOMAIN handles : ExitHandle(h)
    \/ \E c \in Targets : ExternalDelete(c)

SpecRevert == Init /\ [][NextRevert]_vars

\* ------------------------------- instrument_llm_provider, statement by statement
\* Two tasks each run instrument_llm_provider once on the same client, one
\* statement at a time; `original` is the task's local
\* original_request_method.
RaceBegin(t, client) ==
    /\ task[t].pc = "idle"
    /\ \A u \in Tasks : task[u].pc # "idle" => task[u].client = client
    /\ task' = [task EXCEPT ![t] = [pc |-> "i_check", client |-> client,
                                    original |-> Absent]]
    /\ UNCHANGED <<toolvars, mgrvars, is_async, suppress_otel, suppressed, tokens>>

\* Lines 65-67: if getattr(client, '_is_instrumented_by_logfire', False):
\*                  return nullcontext()
RaceCheck(t) ==
    /\ task[t].pc = "i_check"
    /\ IF Getattr(is_instrumented_by_logfire, task[t].client, "absent") = "True"
       THEN /\ handles' = Append(handles,
                                 [kind |-> "nullcontext", client |-> task[t].client,
                                  st |-> "new", wrapper |-> 0,
                                  pre |-> Getattr(request, task[t].client, Absent),
                                  subs |-> <<>>, reverted |-> <<>>])
            /\ task' = [task EXCEPT ![t].pc = "i_done"]
       ELSE /\ handles' = handles
            /\ task' = [task EXCEPT ![t].pc = "i_flag"]
    /\ UNCHANGED <<toolvars, request, original_request_method, is_instrumented_by_logfire, closures,
                   is_async, suppress_otel, suppressed, tokens>>

\* Line 71: client._is_instrumented_by_logfire = True
RaceSetFlag(t) ==
    /\ task[t].pc = "i_flag"
    /\ is_instrumented_by_logfire' =
          [is_instrumented_by_logfire EXCEPT ![task[t].client] = "True"]
    /\ task' = [task EXCEPT ![t].pc = "i_record"]
    /\ UNCHANGED <<toolvars, request, original_request_method, closures, handles,
                   is_async, suppress_otel, suppressed, tokens>>

\* Line 72: client._original_request_method = original_request_method = client._request
RaceRecord(t) ==
    /\ task[t].pc = "i_record"
    /\ LET v == Getattr(request, task[t].client, Absent) IN
       /\ original_request_method' = [original_request_method EXCEPT ![task[t].client] = v]
       /\ task' = [task EXCEPT ![t].original = v, ![t].pc = "i_patch"]
    /\ UNCHANGED <<toolvars, request, is_instrumented_by_logfire, closures, handles,
                   is_async, suppress_otel, suppressed, tokens>>

\* Lines 187-190 and 207: client._request = the wrapper closing over the
\* local original_request_method; return uninstrument_context().
RacePatch(t) ==
    /\ task[t].pc = "i_patch"
    /\ LET k == Len(closures) + 1 IN
       /\ closures' = Append(closures, [client |-> task[t].client,
                                        original_request_method |-> task[t].original,
                                        suppress_otel |-> suppress_otel,
                                        is_async |-> is_async])
       /\ request' = [request EXCEPT ![task[t].client] = Wrapper(k)]
       /\ handles' = Append(handles,
                            [kind |-> "uninstrument_context", client |-> task[t].client,
                             st |-> "new", wrapper |-> k, pre |-> task[t].original,
                             subs |-> <<>>, reverted |-> <<>>])
    /\ task' = [task EXCEPT ![t].pc = "i_done"]
    /\ UNCHANGED <<toolvars, original_request_method, is_instrumented_by_logfire,
                   is_async, suppress_otel, suppressed, tokens>>

NextRace ==
    \/ \E t \in Tasks, c \in Targets : RaceBegin(t, c)
    \/ \E t \in Tasks : RaceCheck(t)
    \/ \E t \in Tasks : RaceSetFlag(t)
    \/ \E t \in Tasks : RaceRecord(t)
    \/ \E t \in Tasks : RacePatch(t)
    \/ \E h \in DOMAIN handles : EnterHandle(h)
    \/ \E h \in DOMAIN handles : ExitHandle(h)

SpecRace == Init /\ [][NextRace]_vars

\* ------------------------------------------ nested suppression scopes
\* A task opens and leaves `with maybe_suppress_instrumentation(suppress):`
\* blocks inside one another. The task's record keeps, for every block it
\* is in, the argument of the block and the suppression state seen just
\* before it was entered; last_exit keeps the block left last.
NoScopes == [pc |-> "scopes", scopes |-> <<>>,
             last_exit |-> [suppress |-> FALSE, depth |-> 0]]

ScopesOf(t) == IF task[t].pc = "scopes" THEN task[t].scopes ELSE <<>>

ScopeEnter(t, suppress) ==
    /\ task[t].pc \in {"idle", "scopes"}
    /\ Len(ScopesOf(t)) < MaxNest
    /\ LET r == IF task[t].pc = "idle" THEN NoScopes ELSE task[t] IN
       task' = [task EXCEPT ![t] =
                  [r EXCEPT !.scopes = Append(@, [suppress |-> suppress, before |-> Ctx(t)])]]
    /\ SetCtx(t, maybe_suppress_enter(Ctx(t), suppress))
    /\ UNCHANGED <<toolvars, mgrvars, is_async, suppress_otel>>

ScopeExit(t) ==
    /\ task[t].pc = "scopes"
    /\ task[t].scopes # <<>>
    /\ LET n == Len(task[t].scopes) IN
       /\ task' = [task EXCEPT ![t].scopes = SubSeq(@, 1, n - 1),
                                ![t].last_exit = [suppress |-> task[t].scopes[n].suppress,
                                                  depth |-> n]]
       /\ SetCtx(t, maybe_suppress_exit(Ctx(t), task[t].scopes[n].suppress))
    /\ UNCHANGED <<toolvars, mgrvars, is_async, suppress_otel>>

NextSuppress ==
    \/ \E t \in Tasks, s \in BOOLEAN : ScopeEnter(t, s)
    \/ \E t \in Tasks : ScopeExit(t)

SpecSuppress == Init /\ [][NextSuppress]_vars

\* ------------------------------------------------------ the tool wrappers
\* The three wrappers around a tool function: create_instrumented_method
\* (tool_provider.py), create_instrumented_duckduckgo_method
\* (duckduckgo.py) and create_instrumented_execute (function_call.py).
ToolKinds == {"method", "duckduckgo", "execute"}

\* What the wrapped original does: returns a truthy value, returns a falsy
\* one (None, an empty list), or raises E.
ToolOutcomes == {"value", "falsy", "raise_E"}

ToolReturn(v) == [kind |-> "return", val |-> v]

ToolRaise(e) == [kind |-> "raise", val |-> e]

NoOutcome == [kind |-> "none", val |-> "none"]

\* span_fails: the span's set_attribute / record_exception raise an
\* exception B (a RuntimeError) whenever they are called.
NewToolCall(kind, has_args, outcome, span_fails) ==
    [pc |-> "tool_span", kind |-> kind, has_args |-> has_args, outcome |-> outcome,
     span_fails |-> span_fails, orig_calls |-> 0, response |-> NoOutcome,
     observed |-> NoOutcome, span |-> "none", recorded |-> <<>>]

\* Entering `with logfire.span(...)` and recording the call's parameters
\* on it before the try block: tool_provider.py lines 345-350,
\* function_call.py lines 246-258; the duckduckgo wrapper (line 135)
\* records none.
tool_record_params(c) ==
    LET c1 == [c EXCEPT !.span = "open"] IN
    IF c.kind = "duckduckgo" \/ ~c.has_args THEN [c1 EXCEPT !.pc = "tool_call"]
    ELSE IF c.span_fails
    THEN [c1 EXCEPT !.observed = ToolRaise("B"), !.pc = "tool_span_close"]
    ELSE [c1 EXCEPT !.recorded = Append(@, "param"), !.pc = "tool_call"]

\* original_method(*args, **kwargs) / original_func / original_execute.
tool_invoke(c) ==
    [c EXCEPT !.orig_calls = @ + 1,
              !.response = IF c.outcome = "raise_E" THEN ToolRaise("E")
                           ELSE ToolReturn(c.outcome),
              !.pc = "tool_record"]

\* The try block after the original has come back, and its except clause.
tool_after_original(c) ==
    LET done(obs, rec) == [c EXCEPT !.observed = obs, !.recorded = @ \o rec,
                                    !.pc = "tool_span_close"]
    IN
    IF c.kind = "method" THEN                      \* tool_provider.py lines 352-374
        IF c.response.kind = "raise"
        THEN IF c.span_fails THEN done(ToolRaise("B"), <<>>)       \* line 372 raises
             ELSE done(c.response, <<"error">>)                    \* lines 372-374
        ELSE IF c.response.val = "value" /\ ~c.span_fails
             THEN done(c.response, <<"result_preview">>)           \* lines 357-362
             ELSE done(c.response, <<>>)                           \* lines 363-369
    ELSE IF c.kind = "duckduckgo" THEN             \* duckduckgo.py lines 136-161
        IF c.span_fails THEN done(ToolRaise("B"), <<>>)            \* lines 139, 159
        ELSE IF c.response.kind = "raise" THEN done(c.response, <<"exception">>)
        ELSE done(c.response, <<"result_type", "result">>)
    ELSE                                           \* function_call.py lines 260-285
        IF c.response.kind = "raise"
        THEN IF c.span_fails THEN done(ToolRaise("B"), <<>>)       \* line 283 raises
             ELSE done(c.response, <<"error", "error_type">>)
        ELSE IF c.response.val = "value"
             THEN IF c.span_fails THEN done(ToolRaise("B"), <<>>)  \* lines 274, 283
                  ELSE done(c.response, <<"result_type", "result_summary">>)
             ELSE done(c.response, <<>>)

\* A caller invokes a wrapped tool function.
ToolCallStart(t, kind, has_args, outcome, span_fails) ==
    /\ task[t].pc = "idle"
    /\ task' = [task EXCEPT ![t] = NewToolCall(kind, has_args, outcome, span_fails)]
    /\ UNCHANGED <<toolvars, mgrvars, is_async, suppress_otel, suppressed, tokens>>

ToolSpanOpen(t) ==
    /\ task[t].pc = "tool_span"
    /\ task' = [task EXCEPT ![t] = tool_record_params(task[t])]
    /\ UNCHANGED <<toolvars, mgrvars, is_async, suppress_otel, suppressed, tokens>>

ToolInvoke(t) ==
    /\ task[t].pc = "tool_call"
    /\ task' = [task EXCEPT ![t] = tool_invoke(task[t])]
    /\ UNCHANGED <<toolvars, mgrvars, is_async, suppress_otel, suppressed, tokens>>

ToolAfterOriginal(t) ==
    /\ task[t].pc = "tool_record"
    /\ task' = [task EXCEPT ![t] = tool_after_original(task[t])]
    /\ UNCHANGED <<toolvars, mgrvars, is_async, suppress_otel, suppressed, tokens>>

\* Leaving `with logfire.span(...)`: the caller has the value or exception.
ToolSpanClose(t) ==
    /\ task[t].pc = "tool_span_close"
    /\ task' = [task EXCEPT ![t].span = "closed", ![t].pc = "tool_done"]
    /\ UNCHANGED <<toolvars, mgrvars, is_async, suppress_otel, suppressed, tokens>>

ToolCallEnd(t) ==
    /\ task[t].pc = "tool_done"
    /\ task' = [task EXCEPT ![t] = IdleTask]
    /\ UNCHANGED <<toolvars, mgrvars, is_async, suppress_otel, suppressed, tokens>>

NextTool ==
    \/ \E k \in ToolKinds, a \in BOOLEAN, o \in ToolOutcomes, f \in BOOLEAN :
          ToolCallStart("t1", k, a, o, f)
    \/ ToolSpanOpen("t1")
    \/ ToolInvoke("t1")
    \/ ToolAfterOriginal("t1")
    \/ ToolSpanClose("t1")
    \/ ToolCallEnd("t1")

SpecTool == Init /\ [][NextTool]_vars

\* ---------------------------------------------------------- truncation
\* Bounds on the arguments of truncate_sequence.
MaxSeqLen == 4
MaxMaxLength == 4
MaxMiddleLen == 3

RECURSIVE SeqsUpTo(_, _)
\* The sequences over alphabet of length at most n.
SeqsUpTo(alphabet, n) ==
    IF n = 0 THEN {<<>>}
    ELSE LET shorter == SeqsUpTo(alphabet, n - 1) IN
         shorter \cup {Append(q, x) : q \in shorter, x \in alphabet}

\* Python's clamping of a slice bound i for a sequence of length n.
SliceBound(i, n) ==
    IF i < 0 THEN (IF i + n < 0 THEN 0 ELSE i + n)
    ELSE (IF i > n THEN n ELSE i)

\* seq[:k]
SliceTo(seq, k) == SubSeq(seq, 1, SliceBound(k, Len(seq)))

\* seq[k:]
SliceFrom(seq, k) == SubSeq(seq, SliceBound(k, Len(seq)) + 1, Len(seq))

\* truncate_sequence(seq, max_length=, middle=), _utils.py lines 65-71;
\* // is floor division, as \div is.
truncate_sequence(seq, max_length, middle) ==
    IF Len(seq) <= max_length THEN seq
    ELSE LET remaining_length == max_length - Len(middle)
             half == remaining_length \div 2
         IN  SliceTo(seq, half) \o middle \o SliceFrom(seq, 0 - half)

\* The default of truncate_string's `middle`.
DefaultMiddle == <<".", ".", ".">>

\* truncate_string(s, max_length=, middle='...'), _utils.py lines 60-62.
truncate_string(s, max_length, middle) == truncate_sequence(s, max_length, middle)

\* The arguments of one call.
TruncateArgs ==
    [seq : SeqsUpTo({"a", "b"}, MaxSeqLen),
     max_length : 0..MaxMaxLength,
     middle : SeqsUpTo({"."}, MaxMiddleLen)]

InitTruncate ==
    /\ request = [t \in Targets |-> IF t = "cls" THEN OriginalRequest ELSE Absent]
    /\ original_request_method = [t \in Targets |-> Absent]
    /\ is_instrumented_by_logfire = [t \in Targets |-> "absent"]
    /\ closures = <<>>
    /\ handles = <<>>
    /\ is_async = FALSE
    /\ suppress_otel = FALSE
    /\ task = [t \in Tasks |-> IdleTask]
    /\ suppressed = [t \in Tasks |-> FALSE]
    /\ tokens = [t \in Tasks |-> <<>>]
    /\ objects = InitialObjects
    /\ \E args \in TruncateArgs : logged = <<args>>

\* The call returns: its value is logged after its arguments.
TruncateReturn(fn, value) ==
    /\ Len(logged) = 1
    /\ logged' = Append(logged, [fn |-> fn, value |-> value])
    /\ UNCHANGED <<mgrvars, is_async, suppress_otel, task, suppressed, tokens, objects>>

TruncateSequence ==
    TruncateReturn("truncate_sequence",
              truncate_sequence(logged[1].seq, logged[1].max_length, logged[1].middle))

TruncateString ==
    TruncateReturn("truncate_string",
              truncate_string(logged[1].seq, logged[1].max_length, logged[1].middle))

\* truncate_string called without `middle`.
TruncateStringDefault ==
    TruncateReturn("truncate_string_default",
              truncate_string(logged[1].seq, logged[1].max_length, DefaultMiddle))

NextTruncate == TruncateSequence \/ TruncateString \/ TruncateStringDefault

SpecTruncate == InitTruncate /\ [][NextTruncate]_vars

\* --------------------------------------------- the FunctionCall classes
SetTool(st) ==
    /\ objects' = st.objects
    /\ logged' = st.logged

FCInstrument(c) ==
    /\ Len(logged) < MaxLog
    /\ SetTool(instrument_function_call(Tool, c))
    /\ UNCHANGED <<mgrvars, is_async, suppress_otel, task, suppressed, tokens>>

FCUninstrument(c) ==
    /\ Len(logged) < MaxLog
    /\ SetTool(uninstrument_function_call(Tool, c))
    /\ UNCHANGED <<mgrvars, is_async, suppress_otel, task, suppressed, tokens>>

NextFunctionCall ==
    \/ \E c \in FCClasses : FCInstrument(c)
    \/ \E c \in FCClasses : FCUninstrument(c)

SpecFunctionCall == Init /\ [][NextFunctionCall]_vars

\* The classes without a subclass relation between them.
UnrelatedClasses == {"FunctionCall", "Plain"}

NextUnrelatedClasses ==
    \/ \E c \in UnrelatedClasses : FCInstrument(c)
    \/ \E c \in UnrelatedClasses : FCUninstrument(c)

SpecUnrelatedClasses == Init /\ [][NextUnrelatedClasses]_vars

\* ------------------------------------------------- tool provider calls
InstrumentToolProvider(lf, target, cfgs) ==
    /\ Len(logged) < MaxProviderCalls
    /\ SetTool(instrument_tool_provider(Tool, lf, target, cfgs))
    /\ UNCHANGED <<mgrvars, is_async, suppress_otel, task, suppressed, tokens>>

NextProvider ==
    \E lf \in LogfireArgs, target \in ProviderTargets, cfgs \in ToolConfigsArgs :
        InstrumentToolProvider(lf, target, cfgs)

SpecProvider == Init /\ [][NextProvider]_vars

\* Lists of configs that have `name` and `instrumented_function`.
NamedConfigs == {<<"named">>, <<"named", "named">>, <<"named", "news">>}

\* instrument_tool_provider with a logfire instance and named configs.
InstrumentNamed(target, cfgs) ==
    /\ Len(logged) < MaxLog
    /\ SetTool(instrument_tool_provider(Tool, "logfire", target, cfgs))
    /\ UNCHANGED <<mgrvars, is_async, suppress_otel, task, suppressed, tokens>>

\* A handle that was returned and not exited yet is exited; `fails` are
\* the tools whose attribute cannot be set at that moment.
ExitProviderHandle(i, fails) ==
    /\ Len(logged) < MaxLog
    /\ logged[i].msg = "handle"
    /\ \A j \in DOMAIN logged : logged[j].msg = "exited" => logged[j].of # i
    /\ SetTool(exit_provider_handle(Tool, i, fails))
    /\ UNCHANGED <<mgrvars, is_async, suppress_otel, task, suppressed, tokens>>

NextProviderRevert ==
    \/ \E target \in ProviderTargets, cfgs \in NamedConfigs : InstrumentNamed(target, cfgs)
    \/ \E i \in DOMAIN logged, fails \in SUBSET ToolNames : ExitProviderHandle(i, fails)

\* The tool modules before any call; they use neither is_async nor
\* suppress_otel.
InitTools == Init /\ ~is_async /\ ~suppress_otel

\* ------------------------------------------------ instrumenting tools
InstrumentTool(tool) ==
    /\ Len(logged) < MaxLog
    /\ objects' = instrument_tool(objects, tool)
    /\ logged' = Append(logged, [msg |-> "instrument_tool", on |-> <<tool>>])
    /\ UNCHANGED <<mgrvars, is_async, suppress_otel, task, suppressed, tokens>>

InstrumentTools(tools) ==
    /\ Len(logged) < MaxLog
    /\ objects' = instrument_tools(objects, tools)
    /\ logged' = Append(logged, [msg |-> "instrument_tools", on |-> tools])
    /\ UNCHANGED <<mgrvars, is_async, suppress_otel, task, suppressed, tokens>>

\* tool.<name>(...) is called on an instance.
InvokeTool(tool, name) ==
    /\ Len(logged) < MaxLog
    /\ logged' = Append(logged, [msg |-> "invoked", on |-> <<tool>>, name |-> name,
                                 spans |-> invoke_tool(ToolAttr(objects, tool, name)).spans,
                                 orig_calls |->
                                     invoke_tool(ToolAttr(objects, tool, name)).orig_calls])
    /\ UNCHANGED <<mgrvars, is_async, suppress_otel, task, suppressed, tokens, objects>>

NextInstrumentTool ==
    \/ \E tool \in ToolInstances \cup {ToolClass} : InstrumentTool(tool)
    \/ \E tools \in {<<"T1">>, <<"T2">>, <<"T1", "T2">>} : InstrumentTools(tools)
    \/ \E tool \in ToolInstances, name \in ToolNames : InvokeTool(tool, name)

SpecInstrumentTool == InitTools /\ [][NextInstrumentTool]_vars

SpecProviderRevert == InitTools /\ [][NextProviderRevert]_vars

\* =====================================================================
\* instrumented_execute: the span of one FunctionCall.execute
\* (function_call.py lines 236-285)
\* =====================================================================

\* Parameter names are sequences of characters, so that lower() and the
\* substring test act on what the name is made of.
SENSITIVE_PARAM_NAMES ==
    << <<"p","a","s","s","w","o","r","d">>, <<"t","o","k","e","n">>,
       <<"s","e","c","r","e","t">>, <<"k","e","y">>, <<"a","u","t","h">>,
       <<"c","r","e","d","e","n","t","i","a","l">> >>

UpperCase == <<"A","B","C","D","E","F","G","H","I","J","K","L","M",
               "N","O","P","Q","R","S","T","U","V","W","X","Y","Z">>

LowerCase == <<"a","b","c","d","e","f","g","h","i","j","k","l","m",
               "n","o","p","q","r","s","t","u","v","w","x","y","z">>

\* str.lower()
Lower(s) ==
    [i \in DOMAIN s |->
        IF \E j \in DOMAIN UpperCase : UpperCase[j] = s[i]
        THEN LowerCase[CHOOSE j \in DOMAIN UpperCase : UpperCase[j] = s[i]]
        ELSE s[i]]

\* `sub in s` for strings
Contains(s, sub) ==
    \E i \in 0..(Len(s) - Len(sub)) : SubSeq(s, i + 1, i + Len(sub)) = sub

\* The test without lower(): an upper-case name is not recognised.
IsSensitiveParamCaseSensitive(param_name) ==
    \E i \in DOMAIN SENSITIVE_PARAM_NAMES : Contains(param_name, SENSITIVE_PARAM_NAMES[i])

\* _is_sensitive_param (lines 57-67)
is_sensitive_param(param_name) ==
    \E i \in DOMAIN SENSITIVE_PARAM_NAMES :
        Contains(Lower(param_name), SENSITIVE_PARAM_NAMES[i])

MaxArgs == 2

QueryName == <<"q","u","e","r","y">>

\* Names a tool call's arguments may have: the query, a plain name, and
\* names holding a sensitive word in mixed case and inside a longer name.
ParamNames ==
    {QueryName, <<"n">>, <<"A","u","t","h">>, <<"a","p","i","_","k","e","y">>}

\* Argument values: two strings and a list.
ParamValues == {"s1", "s2", "list"}

\* isinstance(v, (str, int, float, bool)) or v is None (line 255)
IsPrimitive(v) == v # "list"

\* str(type(v)) (line 258)
TypeOf(v) == IF v = "list" THEN "<class 'list'>" ELSE "<class 'str'>"

\* str(v) (line 242)
Str(v) == IF v = "list" THEN "['s1']" ELSE v

\* The keys of a dict, in insertion order, without repetition.
ArgumentNames ==
    {ns \in SeqsUpTo(ParamNames, MaxArgs) : \A i, j \in DOMAIN ns : ns[i] = ns[j] => i = j}

\* arguments.get('query', 'unknown') (line 242)
GetQuery(arguments) ==
    IF \E i \in DOMAIN arguments : arguments[i].name = QueryName
    THEN arguments[CHOOSE i \in DOMAIN arguments : arguments[i].name = QueryName].value
    ELSE "unknown"

\* span_obj.set_attribute: a later value for a key replaces the earlier.
SetAttribute(attrs, key, value) ==
    IF \E i \in DOMAIN attrs : attrs[i].key = key
    THEN [i \in DOMAIN attrs |-> IF attrs[i].key = key THEN [key |-> key, value |-> value] ELSE attrs[i]]
    ELSE Append(attrs, [key |-> key, value |-> value])

\* f"{function_name}.param.{k}" and f"{function_name}.param.{k}.type":
\* the part of the key after the function name.
ParamKey(k) == <<"param", ".">> \o k

ParamTypeKey(k) == ParamKey(k) \o <<".","t","y","p","e">>

\* The loop of lines 249-258 over the first n arguments.
RECURSIVE add_parameters(_, _, _)
add_parameters(attrs, arguments, n) ==
    IF n = 0 THEN attrs
    ELSE LET sofar == add_parameters(attrs, arguments, n - 1)
             k == arguments[n].name
             v == arguments[n].value
         IN  IF is_sensitive_param(k) THEN SetAttribute(sofar, ParamKey(k), "[REDACTED]")
             ELSE IF IsPrimitive(v) THEN SetAttribute(sofar, ParamKey(k), v)
             ELSE SetAttribute(sofar, ParamTypeKey(k), TypeOf(v))

\* instrumented_execute (lines 236-285): the span it leaves. The span is
\* opened with the query (lines 245-246), the parameters are added, the
\* original runs, and its result (lines 266-275) or its exception
\* (lines 278-284, re-raised) is added.
instrumented_execute(arguments, outcome) ==
    LET query  == Str(GetQuery(arguments))
        opened == <<[key |-> <<"query">>, value |-> query]>>
        params == add_parameters(opened, arguments, Len(arguments))
    IN  [message |-> <<"Tool f query: ", query>>,
         attributes |->
            IF outcome = "raise"
            THEN SetAttribute(SetAttribute(params, <<"error">>, "exc"), <<"error_type">>, "Exception")
            ELSE SetAttribute(params, <<"result_type">>, "<class 'str'>"),
         raised |-> outcome = "raise"]

\* Two tool calls with the same argument names, each with its own values.
InitExecute ==
    /\ request = [t \in Targets |-> IF t = "cls" THEN OriginalRequest ELSE Absent]
    /\ original_request_method = [t \in Targets |-> Absent]
    /\ is_instrumented_by_logfire = [t \in Targets |-> "absent"]
    /\ closures = <<>>
    /\ handles = <<>>
    /\ is_async = FALSE
    /\ suppress_otel = FALSE
    /\ task = [t \in Tasks |-> IdleTask]
    /\ suppressed = [t \in Tasks |-> FALSE]
    /\ tokens = [t \in Tasks |-> <<>>]
    /\ objects = InitialObjects
    /\ \E ns \in ArgumentNames : \E va, vb \in [DOMAIN ns -> ParamValues] :
          logged = <<[first  |-> [i \in DOMAIN ns |-> [name |-> ns[i], value |-> va[i]]],
                      second |-> [i \in DOMAIN ns |-> [name |-> ns[i], value |-> vb[i]]]]>>

Execute(n, arguments) ==
    /\ Len(logged) = n
    /\ \E outcome \in {"ok", "raise"} :
          logged' = Append(logged, instrumented_execute(arguments, outcome))
    /\ UNCHANGED <<mgrvars, is_async, suppress_otel, task, suppressed, tokens, objects>>

ExecuteFirst == Execute(1, logged[1].first)

ExecuteSecond == Execute(2, logged[1].second)

NextExecute == ExecuteFirst \/ ExecuteSecond

SpecExecute == InitExecute /\ [][NextExecute]_vars

\* =====================================================================
\* Calls in flight while a handle is released
\* (llm_provider.py lines 71-72, 135-159, 192-207)
\* =====================================================================

\* Number of calls one behaviour makes through a wrapper, and of
\* instrument_llm_provider calls it makes.
MaxCalls == 1

MaxInflightInstalls == 2

InflightInstrument(client) ==
    /\ Len(handles) < MaxInflightInstalls
    /\ Instrument(client)

\* The release block of uninstrument_context, one statement at a time, so
\* that a call may run between any two of them.
\* Line 202: client._request = client._original_request_method
ReleaseRestore(h) ==
    /\ handles[h].st = "entered"
    /\ handles[h].kind = "uninstrument_context"
    /\ LET client == handles[h].client
           v == Getattr(original_request_method, client, Absent) IN
       IF v = Absent
       THEN /\ handles' = [handles EXCEPT ![h].st = "raised", ![h].reverted = <<client>>]
            /\ UNCHANGED request
       ELSE /\ request' = [request EXCEPT ![client] = v]
            /\ handles' = [handles EXCEPT ![h].st = "restored", ![h].reverted = <<client>>]
    /\ UNCHANGED <<toolvars, original_request_method, is_instrumented_by_logfire, closures,
                   is_async, suppress_otel, task, suppressed, tokens>>

\* Line 203: del client._original_request_method
ReleaseDelete(h) ==
    /\ handles[h].st = "restored"
    /\ LET client == handles[h].client IN
       IF original_request_method[client] = Absent
       THEN /\ handles' = [handles EXCEPT ![h].st = "raised"]
            /\ UNCHANGED original_request_method
       ELSE /\ original_request_method' = [original_request_method EXCEPT ![client] = Absent]
            /\ handles' = [handles EXCEPT ![h].st = "deleted"]
    /\ UNCHANGED <<toolvars, request, is_instrumented_by_logfire, closures,
                   is_async, suppress_otel, task, suppressed, tokens>>

\* Line 204: client._is_instrumented_by_logfire = False
ReleaseFlag(h) ==
    /\ handles[h].st = "deleted"
    /\ is_instrumented_by_logfire' =
          [is_instrumented_by_logfire EXCEPT ![handles[h].client] = "False"]
    /\ handles' = [handles EXCEPT ![h].st = "exited"]
    /\ UNCHANGED <<toolvars, request, original_request_method, closures,
                   is_async, suppress_otel, task, suppressed, tokens>>

\* __exit__ of the nullcontext() an already instrumented client got.
ExitNullContext(h) ==
    /\ handles[h].kind = "nullcontext"
    /\ ExitHandle(h)

\* A variant of the wrapper that reads the target's attribute
\* _original_request_method when it dispatches.
DispatchThroughAttribute(cls, orig, c) == Getattr(orig, cls[c.wrapper].client, Absent)

\* The callable the wrapper of call c dispatches to: original_request_method
\* is a local of instrument_llm_provider (line 72) that the wrapper closes
\* over; the target's attribute is not read.
dispatch_target(cls, orig, c) == cls[c.wrapper].original_request_method

\* The state of the handle that installed wrapper k.
HandleStateOf(k) ==
    handles[CHOOSE h \in DOMAIN handles : handles[h].wrapper = k].st

\* original_request_method(*args, **kwargs) of lines 138, 148, 153. What is
\* dispatched to is logged with the state the wrapper's handle is in. A
\* name that is not there raises at the call; a wrapper there would run as
\* the callee and reach the original through its own closure.
Dispatch(t) ==
    /\ task[t].pc = "call"
    /\ LET callee == dispatch_target(closures, original_request_method, task[t]) IN
       /\ logged' = Append(logged, [wrapper |-> task[t].wrapper, callee |-> callee,
                                    handle |-> HandleStateOf(task[t].wrapper)])
       /\ task' = [task EXCEPT ![t] =
                     IF callee = Absent
                     THEN [task[t] EXCEPT !.response = [kind |-> "raise", val |-> "AttributeError",
                                                        cls |-> "None"],
                                          !.pc = "returned"]
                     ELSE invoke_original(task[t], suppressed[t])]
    /\ UNCHANGED <<objects, mgrvars, is_async, suppress_otel, suppressed, tokens>>

\* Calls that return a response or raise, instrumented or passed through.
InflightConfigs ==
    {cf \in Configs : /\ cf.request_model = "absent"
                      /\ ~cf.stream_state_cls
                      /\ cf.message_template \in {"None", "Call {model}"}}

InflightCallStart(t) ==
    /\ Len(logged) < MaxCalls
    /\ \E tg \in Targets, kw \in {k \in Kwargs : ~k.stream}, cf \in InflightConfigs,
          out \in {"response", "raise_E"} : CallStart(t, tg, kw, cf, out)

NextInflight ==
    \/ \E c \in Targets : InflightInstrument(c)
    \/ \E h \in DOMAIN handles : EnterHandle(h)
    \/ \E h \in DOMAIN handles : ReleaseRestore(h)
    \/ \E h \in DOMAIN handles : ReleaseDelete(h)
    \/ \E h \in DOMAIN handles : ReleaseFlag(h)
    \/ \E h \in DOMAIN handles : ExitNullContext(h)
    \/ InflightCallStart("t1")
    \/ Setup("t1")
    \/ SpanOpen("t1")
    \/ EnterSuppress("t1")
    \/ Dispatch("t1")
    \/ AfterOriginal("t1")
    \/ ExitSuppress("t1")
    \/ SpanClose("t1")
    \/ CallEnd("t1")

SpecInflight == InitTools /\ [][NextInflight]_vars

\* =====================================================================
\* Properties of the interception manager (checked under Spec)
\* =====================================================================

\* Number of wrapper layers a callable goes through before it reaches the
\* library's own request function.
RECURSIVE Depth(_)
Depth(f) ==
    IF f.kind = "wrapper" THEN 1 + Depth(closures[f.id].original_request_method) ELSE 0

\* instrument_llm_provider applied once more to the state after this step.
Reinstrumented(client) == instrument_single(Mgr', client, suppress_otel', is_async')

\* C1: exiting the handle instrument_llm_provider returned for a target
\* that was not instrumented puts back, as the target's `_request`, exactly
\* the callable the target held when it was instrumented, sets the
\* instrumented flag to False without raising, and leaves the target so
\* that instrumenting it again installs a fresh wrapper.
C1_RevertRestoresOriginal ==
    [][\A h \in DOMAIN handles :
          (/\ handles[h].kind = "uninstrument_context"
           /\ handles[h].st = "entered"
           /\ handles'[h].st # "entered")
          => LET client == handles[h].client IN
             /\ handles'[h].st = "exited"
             /\ Getattr(request', client, Absent) = handles[h].pre
             /\ handles[h].pre.kind # "wrapper"
             /\ is_instrumented_by_logfire'[client] = "False"
             /\ original_request_method'[client] = Absent
             /\ Reinstrumented(client).req[client] = Wrapper(Len(closures') + 1)
             /\ Reinstrumented(client).made[1].kind = "uninstrument_context"]_vars

\* C1 witness: a target was instrumented, reverted to the library's own
\* callable, and instrumented again with a second wrapper.
C1_Witness ==
    \E h1, h2 \in DOMAIN handles :
        /\ h1 < h2
        /\ handles[h1].kind = "uninstrument_context" /\ handles[h1].st = "exited"
        /\ handles[h2].kind = "uninstrument_context"
        /\ handles[h2].client = handles[h1].client
        /\ handles[h2].pre = OriginalRequest
        /\ request[handles[h1].client] = Wrapper(handles[h2].wrapper)

\* C2: instrument_llm_provider on a target whose instrumented flag is set
\* leaves `_request`, `_original_request_method` and the flag of every
\* target as they were, installs no wrapper, and returns a handle whose
\* entry and exit change nothing either.
C2_ReinstrumentIsNoOp ==
    [][/\ \A client \in Targets :
            (/\ Getattr(is_instrumented_by_logfire, client, "absent") = "True"
             /\ Len(handles') = Len(handles) + 1
             /\ handles'[Len(handles')].client = client)
            => /\ handles'[Len(handles')].kind = "nullcontext"
               /\ UNCHANGED <<toolvars, request, original_request_method,
                              is_instrumented_by_logfire, closures>>
       /\ \A h \in DOMAIN handles :
            (handles[h].kind = "nullcontext" /\ handles'[h].st # handles[h].st)
            => /\ UNCHANGED <<toolvars, request, original_request_method,
                              is_instrumented_by_logfire, closures>>
               /\ handles'[h].st \in {"entered", "exited"}]_vars

\* C2 witness: a trivial handle, returned for a target that stayed
\* instrumented, has been entered and exited and the target still carries
\* its wrapper.
C2_Witness ==
    \E h \in DOMAIN handles :
        /\ handles[h].kind = "nullcontext" /\ handles[h].st = "exited"
        /\ handles[h].pre.kind = "wrapper"
        /\ Getattr(request, handles[h].client, Absent) = handles[h].pre
        /\ Getattr(is_instrumented_by_logfire, handles[h].client, "absent") = "True"

\* The handles (top-level, or inside a collection's handle) that revert
\* target c, as pairs <<handle, state>>.
RevertEntries(c) ==
    {<<h, handles[h].st>> : h \in {x \in DOMAIN handles :
          \/ handles[x].kind = "uninstrument_context" /\ handles[x].client = c
          \/ \E i \in DOMAIN handles[x].subs :
                /\ handles[x].subs[i].kind = "uninstrument_context"
                /\ handles[x].subs[i].client = c}}

\* C3: however often a target is instrumented, its `_request` goes through
\* at most one wrapper layer, no recorded original is a wrapper, and once
\* every handle returned for the target has been exited (in any order) its
\* `_request` is the original callable.
C3_OneWrapperLayer ==
    /\ \A t \in Targets : Depth(Getattr(request, t, Absent)) <= 1
    /\ \A t \in Targets : original_request_method[t].kind # "wrapper"
    /\ \A k \in DOMAIN closures : closures[k].original_request_method = OriginalRequest
    /\ \A h \in DOMAIN handles : handles[h].st # "raised"
    /\ \A t \in Targets :
          (RevertEntries(t) # {} /\ \A e \in RevertEntries(t) : e[2] = "exited")
          => /\ Getattr(request, t, Absent) = OriginalRequest
             /\ request[t] = OriginalRequest

\* C3 witness: the same target was instrumented twice (a reverting handle
\* and a trivial one), both handles were exited, and the target is unwrapped.
C3_Witness ==
    \E h1, h2 \in DOMAIN handles :
        /\ h1 < h2
        /\ handles[h1].kind = "uninstrument_context" /\ handles[h1].st = "exited"
        /\ handles[h2].kind = "nullcontext" /\ handles[h2].st = "exited"
        /\ handles[h1].client = handles[h2].client
        /\ request[handles[h1].client] = OriginalRequest

\* =====================================================================
\* Properties of one intercepted call (checked under SpecCall)
\* =====================================================================

\* The call task t1 has in progress or has finished.
TheCall == task["t1"]

Started == TheCall.pc # "idle"

\* The caller has the call's return value or exception.
Returned == TheCall.pc \in {"done", "s_pull", "s_record", "s_yield", "s_suspended",
                            "s_release", "s_span_close", "s_done"}

\* The resolver answered "do not instrument" to a call that was not suppressed.
SentinelCall ==
    /\ Started
    /\ ~TheCall.entry_suppressed
    /\ TheCall.config.message_template \in {"None", ""}

\* The call is instrumented: not suppressed, and the resolver gave a template.
InstrumentedCall ==
    /\ Started
    /\ ~TheCall.entry_suppressed
    /\ TheCall.config.message_template \notin {"None", ""}

\* The streaming path: streaming requested and a stream state class present.
StreamingCall ==
    /\ InstrumentedCall
    /\ TheCall.caller_kwargs.stream
    /\ TheCall.config.stream_state_cls

\* What the same call gives on a target that was never instrumented.
Uninstrumented == OriginalResult(TheCall.outcome, TheCall.caller_kwargs)

\* C4: when the resolver returns no message template (None or empty), the
\* wrapper, sync or async, calls the original once with the caller's kwargs
\* unchanged, the caller gets exactly the original's return value or
\* exception, and no span is created at any point of the call.
C4_SentinelPassthrough ==
    SentinelCall =>
        /\ TheCall.spans = <<>>
        /\ TheCall.kwargs = TheCall.caller_kwargs
        /\ TheCall.orig_calls <= 1
        /\ Returned => /\ TheCall.orig_calls = 1
                       /\ TheCall.orig_kwargs = <<TheCall.caller_kwargs>>
                       /\ TheCall.result = Uninstrumented

\* C4 witness: an async wrapper passed an exception of the original through
\* for a call whose template was the empty string.
C4_Witness ==
    /\ SentinelCall /\ Returned
    /\ TheCall.config.message_template = ""
    /\ closures[TheCall.wrapper].is_async
    /\ TheCall.result.kind = "raise"
    /\ TheCall.orig_calls = 1

\* C5: on the non-streaming path, when the original raises E the caller
\* observes E itself, the original was called exactly once, and every span
\* opened for the call is closed (having recorded E) by the time the caller
\* has the exception.
C5_ExceptionTransparent ==
    (/\ InstrumentedCall
     /\ ~StreamingCall
     /\ TheCall.outcome = "raise_E"
     /\ Returned)
    => /\ TheCall.result = [kind |-> "raise", val |-> "E", cls |-> "None"]
       /\ TheCall.orig_calls = 1
       /\ \A i \in DOMAIN TheCall.spans :
             ~TheCall.spans[i].open /\ TheCall.spans[i].exception = "E"
       /\ ~TheCall.caller_kwargs.stream => Len(TheCall.spans) = 1

\* C5 witness: a non-streaming call whose original raised has returned
\* control to the caller with one closed span.
C5_Witness ==
    /\ InstrumentedCall /\ Returned
    /\ ~TheCall.caller_kwargs.stream
    /\ TheCall.outcome = "raise_E"
    /\ TheCall.result.kind = "raise"
    /\ Len(TheCall.spans) = 1 /\ ~TheCall.spans[1].open

\* The stream was consumed to its end: the source was exhausted or raised,
\* and the consumer has seen that.
StreamEnded == Started /\ TheCall.pc = "s_done"

\* C6: a stream consumed until its source is exhausted or raises has had its
\* stream state finalized exactly once; finalization never runs twice, and
\* it has not run while chunks are still being pulled.
C6_FinalizeOnce ==
    Started =>
        /\ TheCall.finalized <= 1
        /\ TheCall.pc \in {"s_pull", "s_record", "s_yield", "s_suspended", "s_release"}
              => TheCall.finalized = 0
        /\ TheCall.pc \in {"s_span_close", "s_done"}
              => TheCall.finalized = 1 /\ TheCall.states_made = 1

\* C6 witness: a stream whose source raised after two chunks has ended,
\* finalized once.
C6_Witness ==
    /\ StreamEnded
    /\ TheCall.source_end = "raise_S"
    /\ Len(TheCall.pulled) = 2
    /\ TheCall.finalized = 1

\* Truthy chunks of a sequence, in order.
TruthyOf(chunks) == SelectSeq(chunks, Truthy)

\* Folding chunks one after the other into a fresh stream state.
RECURSIVE FoldChunks(_)
FoldChunks(chunks) ==
    IF chunks = <<>> THEN <<>>
    ELSE state_record_chunk(FoldChunks(SubSeq(chunks, 1, Len(chunks) - 1)),
                            chunks[Len(chunks)])

\* C7: when the source raises after chunks were delivered, the stream state
\* is finalized on what was recorded so far (the aggregate is on the span),
\* and the consumer then observes the source's own exception.
C7_SourceErrorPropagates ==
    (StreamEnded /\ TheCall.source_end = "raise_S")
    => /\ TheCall.stream_result = "raise_S"
       /\ TheCall.finalized = 1
       /\ TheCall.spans[Len(TheCall.spans)].response_data
             = get_response_data(FoldChunks(TruthyOf(TheCall.yielded)))
       /\ TheCall.spans[Len(TheCall.spans)].exception = "S"
       /\ TheCall.yielded = TheCall.pulled

\* C7 witness: the source raised after delivering a chunk, and the consumer
\* has the exception.
C7_Witness ==
    /\ StreamEnded
    /\ TheCall.source_end = "raise_S"
    /\ Len(TheCall.yielded) >= 1
    /\ TheCall.stream_result = "raise_S"
    /\ TheCall.spans[Len(TheCall.spans)].response_data # <<>>

\* The chunks pulled from the source that record_chunk has gone through.
Processed ==
    IF TheCall.pc = "s_record" THEN SubSeq(TheCall.pulled, 1, Len(TheCall.pulled) - 1)
    ELSE TheCall.pulled

\* C8 as stated: every chunk the source produced has been fed to the stream
\* state, once and in arrival order, whatever its value.
C8_EveryChunkRecorded ==
    Started => TheCall.stream_state = Processed

\* C8 amended: the stream state has been fed exactly the truthy chunks the
\* source produced, once each and in arrival order, each before it is
\* yielded; falsy chunks are yielded without being recorded; and the
\* finalized result is the fold of the truthy chunks into a fresh state.
C8_TruthyChunksRecordedInOrder ==
    Started =>
        /\ TheCall.stream_state = TruthyOf(Processed)
        /\ TheCall.pc \in {"s_pull", "s_suspended", "s_release", "s_span_close", "s_done"}
              => TheCall.yielded = TheCall.pulled
        /\ TheCall.pc \in {"s_record", "s_yield"}
              => TheCall.yielded = SubSeq(TheCall.pulled, 1, Len(TheCall.pulled) - 1)
        /\ TheCall.pc \in {"s_span_close", "s_done"}
              => TheCall.spans[Len(TheCall.spans)].response_data
                    = get_response_data(FoldChunks(TruthyOf(TheCall.pulled)))

\* C8 witness: a stream of a truthy chunk, a falsy chunk and another truthy
\* chunk has been consumed to exhaustion.
C8_Witness ==
    /\ StreamEnded
    /\ TheCall.source_end = "exhausted"
    /\ TheCall.pulled = <<"chunk_m1", "empty", "chunk">>
    /\ TheCall.spans[Len(TheCall.spans)].response_data = <<"chunk_m1", "chunk">>

\* C9: on the streaming path the request wrapper opens no span, and
\* consuming the stream opens exactly one (the parent span), whatever the
\* number of chunks.
C9_OneSpanPerStream ==
    StreamingCall =>
        /\ Len(TheCall.spans) <= 1
        /\ TheCall.pc \in {"setup", "suppress_enter", "call", "returned",
                           "suppress_exit", "done"} => TheCall.spans = <<>>
        /\ TheCall.pc \in {"s_pull", "s_record", "s_yield", "s_suspended", "s_release",
                           "s_span_close", "s_done"}
              => Len(TheCall.spans) = 1 /\ TheCall.spans[1].by = "stream"
        /\ (Returned /\ TheCall.outcome # "raise_E")
              => TheCall.result.cls \in InstrumentedStreams

\* C9 witness: a stream of several chunks was consumed to its end under one
\* span.
C9_Witness ==
    /\ StreamingCall /\ StreamEnded
    /\ Len(TheCall.yielded) >= 2
    /\ Len(TheCall.spans) = 1
    /\ ~TheCall.spans[1].open

\* C10: a call made while instrumentation is suppressed creates no span,
\* keeps the caller's stream class, and runs the original once, with the
\* caller's kwargs and under the caller's suppression state, giving the
\* caller exactly the original's outcome.
C10_SuppressedPassthrough ==
    (Started /\ TheCall.entry_suppressed) =>
        /\ TheCall.spans = <<>>
        /\ TheCall.kwargs = TheCall.caller_kwargs
        /\ TheCall.orig_calls <= 1
        /\ TheCall.pc \notin {"s_pull", "s_record", "s_yield", "s_suspended", "s_release",
                              "s_span_close", "s_done"}
        /\ Returned => /\ TheCall.orig_calls = 1
                       /\ TheCall.orig_kwargs = <<TheCall.caller_kwargs>>
                       /\ TheCall.orig_suppressed = <<TRUE>>
                       /\ TheCall.result = Uninstrumented

\* C10 witness: a suppressed streaming call, which the resolver would have
\* instrumented, returned a stream of the caller's own class.
C10_Witness ==
    /\ Started /\ TheCall.entry_suppressed /\ Returned
    /\ TheCall.config.message_template = "Call {model}"
    /\ TheCall.config.stream_state_cls
    /\ TheCall.result.kind = "stream"
    /\ TheCall.result.cls = "Stream"


\* =====================================================================
\* Properties of nested suppression scopes (checked under SpecSuppress)
\* =====================================================================

\* C11: suppression scopes nest. While a task is inside any block entered
\* with suppress=True, suppression is active for it, so leaving an inner
\* block leaves the outer one in force; and leaving a block puts back
\* exactly the suppression state seen before that block was entered, so
\* that after leaving all of them the state is the initial one.
C11_SuppressionScopesNest ==
    [][\A t \in Tasks :
         /\ ((\E i \in DOMAIN ScopesOf(t)' : ScopesOf(t)'[i].suppress) => suppressed'[t])
         /\ (Len(ScopesOf(t)') < Len(ScopesOf(t)) =>
                 Ctx(t)' = ScopesOf(t)[Len(ScopesOf(t))].before)
         /\ (ScopesOf(t)' = <<>> => (~suppressed'[t] /\ tokens'[t] = <<>>))]_vars

\* C11 witness: of two nested suppressing blocks the inner one has been
\* left, and suppression is still active in the outer one.
C11_Witness ==
    /\ task["t1"].pc = "scopes"
    /\ Len(task["t1"].scopes) = 1
    /\ task["t1"].scopes[1].suppress
    /\ task["t1"].last_exit = [suppress |-> TRUE, depth |-> 2]
    /\ suppressed["t1"]


\* =====================================================================
\* Suppression around an intercepted call (checked under SpecCall)
\* =====================================================================

\* C12: when an intercepted call hands its outcome to the caller, by
\* returning or by raising, on the passthrough, streaming and non-streaming
\* paths alike, the caller's suppression state is the one it had when it
\* made the call; no step of consuming the returned stream changes it.
C12_SuppressionRestoredAfterCall ==
    [][/\ (task["t1"].pc # "done" /\ task'["t1"].pc = "done") =>
             /\ suppressed'["t1"] = task'["t1"].entry_suppressed
             /\ tokens'["t1"] = task'["t1"].entry_tokens
       /\ (/\ task'["t1"] # task["t1"]
           /\ task'["t1"].pc \in {"s_pull", "s_record", "s_yield", "s_suspended",
                                   "s_release", "s_span_close", "s_done"}) =>
             /\ suppressed'["t1"] = suppressed["t1"]
             /\ tokens'["t1"] = tokens["t1"]]_vars

\* C12 witness: a wrapper installed with suppress_otel=True has run the
\* original under suppression for a caller that was not suppressed, the
\* original raised, and the caller is unsuppressed again.
C12_Witness ==
    /\ Returned
    /\ suppress_otel
    /\ ~TheCall.entry_suppressed
    /\ TheCall.path = "non_stream"
    /\ TheCall.orig_suppressed = <<TRUE>>
    /\ TheCall.result.kind = "raise"
    /\ ~suppressed["t1"]
    /\ tokens["t1"] = TheCall.entry_tokens


\* =====================================================================
\* Failing collaborators (checked under SpecFault)
\* =====================================================================

\* C13: an exception raised by bookkeeping (setting response_model, the
\* on-response hook, the stream state's record_chunk or its finalization)
\* never replaces the call's outcome: a non-streaming caller still gets a
\* return value when the original returned, and the original's own error
\* when it raised; a stream's consumer still gets every chunk the source
\* produced and then the source's own end.
C13_BookkeepingNeverMasks ==
    (Started /\ TheCall.fault \in Faults \ {"resolver"}) =>
        /\ (TheCall.pc = "done" /\ TheCall.path = "non_stream") =>
               /\ TheCall.result.kind = TheCall.response.kind
               /\ TheCall.response.kind = "raise" => TheCall.result = TheCall.response
        /\ TheCall.pc = "s_done" =>
               /\ TheCall.yielded = TheCall.pulled
               /\ TheCall.stream_result =
                     IF TheCall.source_end = "raise_S" THEN "raise_S" ELSE "StopIteration"

\* C14: when the resolver raises, the caller does not see that failure:
\* the original is invoked once and its outcome is what the caller gets,
\* and no span is created.
C14_ResolverFailurePassthrough ==
    (Returned /\ TheCall.fault = "resolver" /\ ~TheCall.entry_suppressed) =>
        /\ TheCall.orig_calls = 1
        /\ TheCall.result = Uninstrumented
        /\ TheCall.spans = <<>>


\* =====================================================================
\* Collections of clients (checked under Spec)
\* =====================================================================

\* The clients of the sub-handles that revert something, last one first.
RECURSIVE RealClientsReversed(_)
RealClientsReversed(subs) ==
    IF subs = <<>> THEN <<>>
    ELSE LET h == subs[Len(subs)]
             rest == RealClientsReversed(SubSeq(subs, 1, Len(subs) - 1)) IN
         IF h.kind = "uninstrument_context" THEN <<h.client>> \o rest ELSE rest

\* C15: instrumenting a collection instruments every target of it during
\* the call itself and returns one handle; exiting that handle runs the
\* revert of every target the call instrumented, the last installed first,
\* and leaves each of them with the callable it had before and not flagged.
C15_CollectionRevertsInReverse ==
    [][/\ (Len(handles') > Len(handles) /\ handles'[Len(handles')].kind = "exit_stack") =>
             /\ Len(handles') = Len(handles) + 1
             /\ \A i \in DOMAIN handles'[Len(handles')].subs :
                   LET sub == handles'[Len(handles')].subs[i] IN
                   /\ Getattr(is_instrumented_by_logfire', sub.client, "absent") = "True"
                   /\ Getattr(request', sub.client, Absent).kind = "wrapper"
                   /\ sub.kind = "uninstrument_context" =>
                         request'[sub.client] = Wrapper(sub.wrapper)
       /\ \A h \in DOMAIN handles :
            (handles[h].kind = "exit_stack" /\ handles[h].st = "entered"
             /\ handles'[h].st # "entered") =>
               /\ handles'[h].st = "exited"
               /\ handles'[h].reverted = RealClientsReversed(handles[h].subs)
               /\ \A i \in DOMAIN handles[h].subs :
                     LET sub == handles[h].subs[i] IN
                     sub.kind = "uninstrument_context" =>
                        /\ request'[sub.client] = sub.pre
                        /\ original_request_method'[sub.client] = Absent
                        /\ is_instrumented_by_logfire'[sub.client] = "False"]_vars

\* C15 witness: the handle of a collection of two targets, both of which
\* the call instrumented, has been exited: the class, installed last, was
\* reverted first.
C15_Witness ==
    \E h \in DOMAIN handles :
        /\ handles[h].kind = "exit_stack"
        /\ handles[h].st = "exited"
        /\ Len(handles[h].subs) = 2
        /\ \A i \in 1..2 : handles[h].subs[i].kind = "uninstrument_context"
        /\ handles[h].subs[1].client = "inst"
        /\ handles[h].reverted = <<"cls", "inst">>


\* C16: when the combined handle of a collection is exited and the revert
\* of one target fails, the revert of every other target is still run and
\* the failure does not come out of the handle as an exception.
C16_RevertFailureIsolated ==
    \A h \in DOMAIN handles :
        (handles[h].kind = "exit_stack" /\ handles[h].st \notin {"new", "entered"}) =>
            /\ handles[h].reverted = RealClientsReversed(handles[h].subs)
            /\ handles[h].st # "raised"


\* =====================================================================
\* Concurrent instrument calls (checked under SpecRace)
\* =====================================================================

\* C17: two instrument_llm_provider calls on the same uninstrumented target,
\* interleaved statement by statement, keep the bookkeeping intact: every
\* recorded original is the callable the target had before, the target's
\* `_request` goes through at most one wrapper, and once both calls have
\* returned and their handles have been exited, no exit has raised and the
\* target's `_request` is the original callable again.
C17_ConcurrentInstallKeepsBookkeeping ==
    /\ \A k \in DOMAIN closures : closures[k].original_request_method = OriginalRequest
    /\ \A c \in Targets : original_request_method[c] \in {Absent, OriginalRequest}
    /\ \A c \in Targets : Depth(Getattr(request, c, Absent)) <= 1
    /\ \A h \in DOMAIN handles : handles[h].st # "raised"
    /\ ((\A t \in Tasks : task[t].pc = "i_done")
        /\ (\A h \in DOMAIN handles : handles[h].st = "exited")) =>
          \A c \in Targets : Getattr(request, c, Absent) = OriginalRequest


\* =====================================================================
\* Cancelled and abandoned streams (checked under SpecStream)
\* =====================================================================

InStream == TheCall.pc \in {"s_pull", "s_record", "s_yield", "s_suspended", "s_abandoned",
                            "s_release", "s_span_close", "s_done"}

\* C18: when the consumer of an async instrumented stream is cancelled
\* while a chunk is awaited, the release block of record_streaming still
\* runs exactly once, over the chunks recorded so far, and the parent span
\* is closed, with the cancellation as its exception; the consumer sees
\* the cancellation.
C18_CancelStillFinalizes ==
    (InStream /\ TheCall.source_end = "cancelled") =>
        /\ closures[TheCall.wrapper].is_async
        /\ TheCall.result.cls = "LogfireInstrumentedAsyncStream"
        /\ TheCall.finalized <= 1
        /\ TheCall.pc \in {"s_span_close", "s_done"} =>
              /\ TheCall.finalized = 1
              /\ TheCall.spans[1].response_data = FoldChunks(TruthyOf(TheCall.pulled))
              /\ TheCall.spans[1].writes_after_close = 0
        /\ TheCall.pc = "s_done" =>
              /\ Len(TheCall.spans) = 1
              /\ ~TheCall.spans[1].open
              /\ TheCall.spans[1].exception = "CancelledError"
              /\ TheCall.stream_result = "raise_CancelledError"

\* C18 witness: an async stream was cancelled after two chunks had been
\* delivered, and its generator has finished.
C18_Witness ==
    /\ TheCall.pc = "s_done"
    /\ TheCall.source_end = "cancelled"
    /\ Len(TheCall.yielded) = 2
    /\ TheCall.finalized = 1
    /\ ~TheCall.spans[1].open

NonStreamingCallDone ==
    /\ TheCall.pc = "done"
    /\ TheCall.path = "non_stream"
    /\ TheCall.config.message_template = "Call {model}"

\* The position of the first occurrence of an entry in the call's log.
FirstAt(entry) ==
    CHOOSE i \in DOMAIN TheCall.log :
        TheCall.log[i] = entry /\ \A j \in 1..(i - 1) : TheCall.log[j] # entry

OneSpanClosedAfterOriginal ==
    /\ Len(TheCall.spans) = 1
    /\ TheCall.spans[1].attrs.model = "x"
    /\ ~TheCall.spans[1].open
    /\ TheCall.orig_calls = 1
    /\ FirstAt("span_open") < FirstAt("original")
    /\ FirstAt("original") < FirstAt("span_close")

RealHandlesOf(h) ==
    IF handles[h].kind = "uninstrument_context"
    THEN {[client |-> handles[h].client, wrapper |-> handles[h].wrapper,
           pre |-> handles[h].pre]}
    ELSE {[client |-> handles[h].subs[i].client, wrapper |-> handles[h].subs[i].wrapper,
           pre |-> handles[h].subs[i].pre] :
             i \in {j \in DOMAIN handles[h].subs :
                      handles[h].subs[j].kind = "uninstrument_context"}}

\* C21: a target is instrumented from the moment instrument_llm_provider
\* returns: whether its handle has not been touched or has been entered,
\* the target holds the wrapper the call installed, the recorded original
\* and the flag; only a handle that has been exited has taken the wrapper
\* off again.
C21_InstrumentedUntilExit ==
    \A h \in DOMAIN handles : \A r \in RealHandlesOf(h) :
        /\ handles[h].st \in {"new", "entered"} =>
              /\ request[r.client] = Wrapper(r.wrapper)
              /\ original_request_method[r.client] = r.pre
              /\ is_instrumented_by_logfire[r.client] = "True"
        /\ handles[h].st \notin {"new", "entered"} =>
              request[r.client] # Wrapper(r.wrapper)

\* C21 witness: the first handle returned was never entered, another
\* handle returned after it has been entered and exited, and the first
\* target is still instrumented.
C21_Witness ==
    /\ Len(handles) >= 2
    /\ handles[1].kind = "uninstrument_context"
    /\ handles[1].st = "new"
    /\ handles[2].kind = "uninstrument_context"
    /\ handles[2].st = "exited"
    /\ request[handles[1].client] = Wrapper(handles[1].wrapper)


\* =====================================================================
\* The tool wrappers (checked under SpecTool)
\* =====================================================================

\* C22: whatever a tool wrapper's original did is what the caller gets:
\* the value it returned, or exactly the exception it raised, also when
\* recording on the span fails.
C22_ToolOutcomeTransparent ==
    \A t \in Tasks :
        (task[t].pc = "tool_done" /\ task[t].orig_calls = 1) =>
            task[t].observed = task[t].response


\* =====================================================================
\* FunctionCall classes (checked under SpecFunctionCall)
\* =====================================================================

\* The record logged n places before the end of the log.
LastLogged(n) == logged[Len(logged) - n]

\* C23: when instrument_function_call instruments a class and
\* uninstrument_function_call is then applied to it, `execute` of the
\* class is the callable it was before, the class has neither the flag nor
\* `_original_execute`, and nothing was reported as an error; an
\* instrument_function_call after that instruments the class again.
C23_FunctionCallRoundTrip ==
    /\ (/\ Len(logged) >= 2
        /\ LastLogged(1).msg = "instrumented"
        /\ LastLogged(0).on = LastLogged(1).on
        /\ LastLogged(0).msg \notin {"instrumented", "already instrumented"}) =>
          LET c == LastLogged(1).on IN
          /\ LastLogged(0).msg = "uninstrumented"
          /\ GetAttr(objects, c, "execute") = LastLogged(1).pre
          /\ objects[c]["_is_instrumented_by_logfire"] = NoAttr
          /\ objects[c]["_original_execute"] = NoAttr
    /\ (/\ Len(logged) >= 3
        /\ LastLogged(2).msg = "instrumented"
        /\ LastLogged(1).on = LastLogged(2).on
        /\ LastLogged(1).msg = "uninstrumented"
        /\ LastLogged(0).on = LastLogged(2).on
        /\ LastLogged(0).msg \notin {"uninstrumented", "not instrumented"}) =>
          LET c == LastLogged(2).on IN
          /\ LastLogged(0).msg = "instrumented"
          /\ LastLogged(0).pre = LastLogged(2).pre
          /\ objects[c]["execute"] = <<"wrapper">> \o LastLogged(2).pre
          /\ objects[c]["_is_instrumented_by_logfire"] = <<"True">>

\* C23 witness: FunctionCall was instrumented, uninstrumented and
\* instrumented again.
C23_Witness ==
    /\ Len(logged) = 3
    /\ \A i \in 1..3 : logged[i].on = "FunctionCall"
    /\ logged[1].msg = "instrumented"
    /\ logged[2].msg = "uninstrumented"
    /\ logged[3].msg = "instrumented"
    /\ objects["FunctionCall"]["execute"] = <<"wrapper", "execute">>


\* =====================================================================
\* Tool providers (checked under SpecProvider)
\* =====================================================================

\* The arguments instrument_tool_provider rejects.
InvalidArguments(rec) ==
    \/ rec.logfire = "None"
    \/ rec.tool_configs = NoneConfigs
    \/ rec.tool_configs = <<>>

\* C24: a call of instrument_tool_provider with logfire None, or with
\* tool_configs None or empty, raises ValueError and changes no attribute
\* of any provider, whether the target is one provider or an iterable.
C24_InvalidArgumentsModifyNothing ==
    [][(Len(logged') = Len(logged) + 1 /\ InvalidArguments(logged'[Len(logged')])) =>
          /\ logged'[Len(logged')].level = "raise"
          /\ logged'[Len(logged')].msg = "ValueError"
          /\ objects' = objects]_vars

\* C24 witness: after P1 was instrumented, a call on the iterable of both
\* providers with an empty tool_configs raised ValueError and P2 is
\* untouched.
C24_Witness ==
    /\ Len(logged) = 2
    /\ logged[1].msg = "handle"
    /\ logged[1].on = [iterable |-> FALSE, providers |-> <<"P1">>]
    /\ logged[2].msg = "ValueError"
    /\ logged[2].logfire = "logfire"
    /\ logged[2].tool_configs = <<>>
    /\ logged[2].on.iterable
    /\ objects["P1"]["search"] = <<"instrumented">>
    /\ objects["P2"] = InitialObjects["P2"]


\* =====================================================================
\* Truncation (checked under SpecTruncate)
\* =====================================================================

\* C25: the sequence truncate_sequence or truncate_string returns is at
\* most max_length long, and is seq itself when seq is at most max_length
\* long.
C25_TruncatedWithinMaxLength ==
    Len(logged) = 2 =>
        /\ Len(logged[2].value) <= logged[1].max_length
        /\ Len(logged[1].seq) <= logged[1].max_length => logged[2].value = logged[1].seq


\* =====================================================================
\* Paths of the request wrapper, continued (checked under SpecCall)
\* =====================================================================

\* An instrumented call that asks for streaming while the endpoint has no
\* stream state class, after it has returned or raised.
StreamWithoutStateClassDone ==
    /\ InstrumentedCall
    /\ TheCall.caller_kwargs.stream
    /\ ~TheCall.config.stream_state_cls
    /\ TheCall.pc = "done"

\* C26: a call that requests streaming on an endpoint without a stream
\* state class takes the non-streaming path: exactly one span is opened
\* around the original call and is closed once the call has returned or
\* raised.
C26_NoStateClassTakesSpanPath ==
    StreamWithoutStateClassDone =>
        /\ TheCall.path = "non_stream"
        /\ Len(TheCall.spans) = 1
        /\ ~TheCall.spans[1].open
        /\ TheCall.orig_calls = 1


\* C27: on the streaming path of a wrapper installed with suppress_otel,
\* the original runs with suppression active; when the wrapper returns,
\* before any chunk has been pulled, the scope it opened is closed and the
\* caller is unsuppressed again; and for a consumer that is not suppressed
\* the parent span is opened and each truthy chunk is recorded into the
\* stream state.
C27_SuppressedOnlyAroundInnerCall ==
    [][(StreamingCall /\ closures[TheCall.wrapper].suppress_otel) =>
          /\ (TheCall.pc = "call" /\ task'["t1"].pc = "returned") =>
                /\ suppressed["t1"]
                /\ task'["t1"].orig_suppressed = <<TRUE>>
          /\ (TheCall.pc = "suppress_exit" /\ task'["t1"].pc = "done") =>
                /\ ~suppressed'["t1"]
                /\ task'["t1"].pulled = <<>>
          /\ (TheCall.pc = "done" /\ task'["t1"].pc = "s_pull" /\ ~suppressed["t1"]) =>
                /\ Len(task'["t1"].spans) = 1
                /\ task'["t1"].spans[1].open
          /\ (/\ TheCall.pc = "s_record"
              /\ task'["t1"].pc = "s_yield"
              /\ ~suppressed["t1"]
              /\ Truthy(TheCall.pulled[Len(TheCall.pulled)])) =>
                task'["t1"].stream_state =
                    state_record_chunk(TheCall.stream_state,
                                       TheCall.pulled[Len(TheCall.pulled)])]_vars

\* C27 witness: the original ran suppressed, and the unsuppressed consumer
\* has received a chunk that was recorded under the open parent span.
C27_Witness ==
    /\ StreamingCall
    /\ closures[TheCall.wrapper].suppress_otel
    /\ TheCall.orig_suppressed = <<TRUE>>
    /\ TheCall.pc = "s_suspended"
    /\ ~suppressed["t1"]
    /\ TheCall.stream_state # <<>>
    /\ Len(TheCall.spans) = 1
    /\ TheCall.spans[1].open


\* The entries of the call's log written by the stream.
StreamLog ==
    SelectSeq(TheCall.log,
              LAMBDA e : e \in {"stream_span_open", "finalize", "stream_span_close"})

\* C28: on the streaming path one parent span is opened and one stream
\* state made when the stream starts; while chunks are recorded the span
\* is open and nothing is finalized; the stream state is then finalized
\* once, over the chunks recorded, with response_data and
\* streaming_duration set and one event added on the still open parent
\* span; the span is closed last, and nothing is written to it once it is
\* closed -- when the source is exhausted and when it raises.
C28_StreamEventsInOrder ==
    (StreamingCall /\ InStream) =>
        /\ Len(TheCall.spans) = 1
        /\ TheCall.states_made = 1
        /\ TheCall.spans[1].writes_after_close = 0
        /\ TheCall.pc \in {"s_pull", "s_record", "s_yield", "s_suspended", "s_release"} =>
              /\ StreamLog = <<"stream_span_open">>
              /\ TheCall.spans[1].open
              /\ TheCall.finalized = 0
              /\ TheCall.spans[1].events = 0
              /\ TheCall.spans[1].response_data = <<"unset">>
              /\ ~TheCall.spans[1].streaming_duration
        /\ TheCall.pc \in {"s_span_close", "s_done"} =>
              /\ TheCall.source_end \in {"exhausted", "raise_S"}
              /\ TheCall.finalized = 1
              /\ TheCall.spans[1].events = 1
              /\ TheCall.spans[1].response_data = get_response_data(TheCall.stream_state)
              /\ TheCall.stream_state = FoldChunks(TruthyOf(TheCall.pulled))
              /\ TheCall.spans[1].streaming_duration
        /\ TheCall.pc = "s_span_close" =>
              /\ StreamLog = <<"stream_span_open", "finalize">>
              /\ TheCall.spans[1].open
        /\ TheCall.pc = "s_done" =>
              /\ StreamLog = <<"stream_span_open", "finalize", "stream_span_close">>
              /\ ~TheCall.spans[1].open

\* C28 witness: a stream whose source raised after one recorded chunk has
\* been finalized and its parent span closed, with one event.
C28_Witness ==
    /\ StreamingCall
    /\ TheCall.pc = "s_done"
    /\ TheCall.source_end = "raise_S"
    /\ Len(TheCall.stream_state) = 1
    /\ TheCall.spans[1].events = 1
    /\ TheCall.spans[1].streaming_duration
    /\ ~TheCall.spans[1].open
    /\ StreamLog = <<"stream_span_open", "finalize", "stream_span_close">>


\* An instrumented call without streaming, after it has returned or raised.
NonStreamingDone ==
    /\ InstrumentedCall
    /\ ~TheCall.caller_kwargs.stream
    /\ TheCall.pc = "done"

\* How many times the on-response hook ran.
HookCalls == Len(SelectSeq(TheCall.log, LAMBDA e : e = "on_response"))

\* C29: on the non-streaming path the one span of the call is closed when
\* the caller has the outcome, whether the original returned or raised;
\* when the original returned r, response_model was set on the span if and
\* only if r has a model, the on-response hook ran exactly once, on r and
\* inside the span, and the caller has the hook's result.
C29_NonStreamingResponseHandled ==
    NonStreamingDone =>
        /\ TheCall.path = "non_stream"
        /\ Len(TheCall.spans) = 1
        /\ ~TheCall.spans[1].open
        /\ TheCall.spans[1].writes_after_close = 0
        /\ TheCall.outcome = "raise_E" =>
              /\ HookCalls = 0
              /\ TheCall.result = TheCall.response
        /\ TheCall.outcome # "raise_E" =>
              /\ TheCall.response = [kind |-> "return", val |-> TheCall.outcome, cls |-> "None"]
              /\ TheCall.spans[1].response_model =
                    IF HasModel(TheCall.outcome) THEN TheCall.outcome ELSE "unset"
              /\ HookCalls = 1
              /\ FirstAt("original") < FirstAt("on_response")
              /\ FirstAt("on_response") < FirstAt("span_close")
              /\ TheCall.result = on_response_fn(TheCall.response)

\* C29 witness: the original returned a dict with a 'model' key; the span
\* carries that model and is closed, and the caller has the hook's result.
C29_Witness ==
    /\ NonStreamingDone
    /\ TheCall.outcome = "dict_model"
    /\ TheCall.spans[1].response_model = "dict_model"
    /\ ~TheCall.spans[1].open
    /\ HookCalls = 1
    /\ TheCall.result = [kind |-> "return", val |-> "on_response", cls |-> "dict_model"]


\* The chunks gone through record_chunk so far that reveal a model.
ModelChunks == SelectSeq(Processed, ChunkHasModel)

\* C30: during a stream the parent span's response_model is written by
\* the first chunk that reveals a model and by no later chunk: at every
\* point it is the model of the first such chunk recorded so far, and it
\* is unset while there is none.
C30_ResponseModelSetOnce ==
    (StreamingCall /\ InStream) =>
        TheCall.spans[1].response_model =
            IF ModelChunks = <<>> THEN "unset" ELSE ModelChunks[1]


\* =====================================================================
\* Concurrent calls (checked under SpecConcurrent)
\* =====================================================================

\* The chunks of task t's call that record_chunk has gone through.
ProcessedOf(t) ==
    IF task[t].pc = "s_record" THEN SubSeq(task[t].pulled, 1, Len(task[t].pulled) - 1)
    ELSE task[t].pulled

\* Task t is consuming, or has consumed, an instrumented stream.
StreamOf(t) ==
    task[t].pc \in {"s_pull", "s_record", "s_yield", "s_suspended", "s_release",
                    "s_span_close", "s_done"}

\* C31: with calls of two tasks on the same instrumented target
\* interleaved, each call has one span and one stream state of its own:
\* the stream state of a call holds exactly the truthy chunks of its own
\* source, in order, and the response_model of its span comes from one of
\* its own chunks.
C31_CallsKeepOwnSpanAndState ==
    \A t \in Tasks :
        /\ task[t].pc # "idle" => Len(task[t].spans) <= 1
        /\ StreamOf(t) =>
              /\ task[t].states_made = 1
              /\ Len(task[t].spans) = 1
              /\ task[t].stream_state = FoldChunks(TruthyOf(ProcessedOf(t)))
              /\ \A i \in DOMAIN task[t].stream_state :
                    task[t].stream_state[i] \in TaskChunks(t)
              /\ task[t].spans[1].response_model \in {"unset"} \cup TaskChunks(t)
              /\ task[t].spans[1].writes_after_close = 0

\* C31 witness: both tasks are in the middle of a stream of the same
\* wrapper, each with a chunk recorded.
C31_Witness ==
    /\ task["t1"].pc = "s_suspended"
    /\ task["t2"].pc = "s_suspended"
    /\ task["t1"].wrapper = task["t2"].wrapper
    /\ task["t1"].stream_state = <<"chunk_m1">>
    /\ task["t2"].stream_state = <<"dict_m2">>
    /\ task["t1"].spans[1].response_model = "chunk_m1"
    /\ task["t2"].spans[1].response_model = "dict_m2"


\* =====================================================================
\* Reverting tool providers (checked under SpecProviderRevert)
\* =====================================================================

\* The last record of the log.
LastRecord == logged[Len(logged)]

\* The last operation was the exit of a handle.
JustExited == Len(logged) >= 1 /\ LastRecord.msg = "exited"

InstrumentedThenExited ==
    /\ Len(logged) >= 2
    /\ JustExited
    /\ LastRecord.of = Len(logged) - 1
    /\ LastRecord.fails = {}
    /\ \A q \in Providers, n \in ToolNames :
          logged[LastRecord.of].before[q][n] = InitialObjects[q][n]

\* C33: instrument_tool_provider with configs that have `name` and
\* `instrumented_function`, followed by exiting the handle it returned,
\* leaves every tool of every provider it instrumented as it was before,
\* and no recorded original is an instrumented function.
C33_ProviderRoundTrip ==
    InstrumentedThenExited =>
        \A k \in DOMAIN logged[LastRecord.of].handle :
            LET sub == logged[LastRecord.of].handle[k] IN
            ~sub.null =>
              /\ \A n \in ToolNames :
                    objects[sub.provider][n] = logged[LastRecord.of].before[sub.provider][n]
              /\ \A j \in DOMAIN sub.originals : sub.originals[j].fn # <<"instrumented">>

\* =====================================================================
\* Tool providers, continued (checked under SpecProvider)
\* =====================================================================

\* C34: a call of instrument_tool_provider with a logfire instance and
\* configs built from the ToolConfig dataclass returns a handle, and each
\* provider it marked as instrumented has the configured tool replaced by
\* the instrumented version.
C34_DataclassConfigsInstrument ==
    (/\ Len(logged) >= 1
     /\ LastRecord.logfire = "logfire"
     /\ LastRecord.tool_configs = <<"dataclass">>) =>
        /\ LastRecord.msg = "handle"
        /\ \A i \in DOMAIN LastRecord.on.providers :
              LET q == LastRecord.on.providers[i] IN
              objects[q]["_is_instrumented_by_logfire_tools"] = <<"True">> =>
                  objects[q]["search"] = <<"instrumented">>


\* =====================================================================
\* Instrumented tools (checked under SpecInstrumentTool)
\* =====================================================================

\* C35: after any sequence of instrument_tool and instrument_tools calls,
\* the invocation of a tool method on an instance that such a call
\* instrumented (directly or through its class) opens exactly one "Tool
\* Call" span and runs the original method exactly once.
C35_OneInstrumentationLayer ==
    (/\ Len(logged) >= 2
     /\ logged[Len(logged)].msg = "invoked") =>
        /\ logged[Len(logged)].orig_calls = 1
        /\ logged[Len(logged)].spans <= 1
        /\ objects[logged[Len(logged)].on[1]][logged[Len(logged)].name] # NoAttr =>
              logged[Len(logged)].spans = 1


\* =====================================================================
\* FunctionCall classes without subclasses (checked under
\* SpecUnrelatedClasses)
\* =====================================================================

\* The class is as instrument_function_call leaves it, or as it was.
WrappedAtMostOnce(objs, c) ==
    /\ objs[c]["execute"] \in {InitialObjects[c]["execute"],
                               <<"wrapper">> \o InitialObjects[c]["execute"]}
    /\ objs[c]["_is_instrumented_by_logfire"] = <<"True">>
          <=> (objs[c]["execute"] # NoAttr /\ Head(objs[c]["execute"]) = "wrapper")
    /\ objs[c]["_is_instrumented_by_logfire"] = <<"True">>
          => objs[c]["_original_execute"] = InitialObjects[c]["execute"]

\* C36: after every instrument_function_call or
\* uninstrument_function_call on a class without subclasses, `execute`
\* is the original or one wrapper around the original, and the flag is
\* set exactly when it is the wrapper; uninstrument_function_call on a
\* class that is not instrumented leaves every attribute as it was.
C36_ExecuteWrappedAtMostOnce ==
    [][/\ \A c \in UnrelatedClasses : WrappedAtMostOnce(objects', c)
       /\ (/\ Len(logged') = Len(logged) + 1
           /\ logged'[Len(logged')].msg = "not instrumented") => objects' = objects]_vars

\* C36 witness: FunctionCall was instrumented twice in a row,
\* uninstrumented and uninstrumented again; it has its original execute
\* and no flag.
C36_Witness ==
    /\ Len(logged) = 4
    /\ \A i \in 1..4 : logged[i].on = "FunctionCall"
    /\ logged[1].msg = "instrumented"
    /\ logged[2].msg = "already instrumented"
    /\ logged[3].msg = "uninstrumented"
    /\ logged[4].msg = "not instrumented"
    /\ objects["FunctionCall"] = InitialObjects["FunctionCall"]

\* ---------------------------------------------------------------------
\* C37: in instrumented_execute the attribute recorded for an argument
\* whose name contains, in any case, one of password, token, secret, key,
\* auth or credential is the constant "[REDACTED]"; two executions whose
\* arguments differ only in the values of such arguments leave the same
\* parameter attributes on their spans.
\* ---------------------------------------------------------------------

\* The claim's own reading of a sensitive name: some window of the
\* lower-cased name spells one of the six words.
NamesSensitiveWord(name) ==
    \E w \in {SENSITIVE_PARAM_NAMES[i] : i \in DOMAIN SENSITIVE_PARAM_NAMES} :
       \E from \in 1..Len(name) :
          /\ from + Len(w) - 1 <= Len(name)
          /\ \A j \in 1..Len(w) : Lower(name)[from + j - 1] = w[j]

\* The attributes of a span whose key starts with "param.".
ParameterAttributes(span) ==
    SelectSeq(span.attributes, LAMBDA a : Len(a.key) >= 2 /\ a.key[1] = "param")

BothExecuted == Len(logged) = 3

C37_SensitiveArgumentsRedacted ==
    BothExecuted =>
       /\ \A run \in 1..2 :
             LET arguments == IF run = 1 THEN logged[1].first ELSE logged[1].second
                 recorded  == ParameterAttributes(logged[run + 1])
             IN  \A i \in DOMAIN arguments :
                    NamesSensitiveWord(arguments[i].name) =>
                       /\ \E a \in DOMAIN recorded :
                             /\ recorded[a].key = ParamKey(arguments[i].name)
                             /\ recorded[a].value = "[REDACTED]"
                       /\ \A a \in DOMAIN recorded :
                             recorded[a].key = ParamTypeKey(arguments[i].name) =>
                                recorded[a].value \notin {TypeOf(v) : v \in ParamValues}
       /\ (\A i \in DOMAIN logged[1].first :
              logged[1].first[i].value # logged[1].second[i].value =>
                 NamesSensitiveWord(logged[1].first[i].name))
          => ParameterAttributes(logged[2]) = ParameterAttributes(logged[3])

\* Two executions whose only difference is the value of a mixed-case
\* sensitive argument, next to an argument that is recorded.
C37_Witness ==
    /\ BothExecuted
    /\ Len(logged[1].first) = 2
    /\ logged[1].first[1] = [name |-> <<"A","u","t","h">>, value |-> "s1"]
    /\ logged[1].second[1] = [name |-> <<"A","u","t","h">>, value |-> "s2"]
    /\ logged[1].first[2] = [name |-> <<"n">>, value |-> "s1"]
    /\ logged[1].second[2] = logged[1].first[2]
    /\ ParameterAttributes(logged[2]) = ParameterAttributes(logged[3])
    /\ Len(ParameterAttributes(logged[2])) = 2

\* ---------------------------------------------------------------------
\* C38: every invocation of an intercepted _request, whichever path it
\* takes (suppressed, passthrough, streaming, non-streaming; sync or
\* async), invokes the original callable exactly once: never more than
\* once while the call runs, and once by the time the caller has the
\* call's return value or exception.
\* ---------------------------------------------------------------------
C38_OriginalInvokedExactlyOnce ==
    Started =>
        /\ TheCall.orig_calls <= 1
        /\ Returned => TheCall.orig_calls = 1

\* ---------------------------------------------------------------------
\* C39: a call that entered the wrapper before or while its target is
\* reverted dispatches to the callable that was the target's _request when
\* the wrapper was installed: whatever statement of the release block has
\* run, the callee is not missing and is not a wrapper, and the call does
\* not fail because of the revert.
\* ---------------------------------------------------------------------
C39_InflightCallsReachInstallTimeRequest ==
    /\ \A i \in DOMAIN logged :
          /\ \E h \in DOMAIN handles :
                /\ handles[h].wrapper = logged[i].wrapper
                /\ handles[h].pre = logged[i].callee
          /\ logged[i].callee # Absent
          /\ logged[i].callee.kind # "wrapper"
    /\ TheCall.pc = "done" =>
          /\ TheCall.orig_calls = 1
          /\ TheCall.result.kind = "raise" =>
                TheCall.outcome = "raise_E" /\ TheCall.result = Uninstrumented

\* A call dispatched between lines 203 and 204 of its target's release
\* block, when the attribute was deleted and the flag still set, reached
\* the original and returned.
C39_Witness ==
    /\ Len(logged) = 1
    /\ logged[1].handle = "deleted"
    /\ logged[1].callee = OriginalRequest
    /\ TheCall.pc = "done"
    /\ TheCall.orig_calls = 1
    /\ TheCall.result.kind = "return"

====
